---- MODULE Spec2Model ----
(***************************************************************************)
(* A model of ocilot's blob transport (layer.rs: Layer and Writer) and of  *)
(* the orchestrators that drive it (cmd/copy.rs, cmd/push.rs).             *)
(*                                                                         *)
(* SpecWriter: one Writer, the caller that feeds it through                *)
(*   AsyncWrite::poll_write, and the registry answering its requests.      *)
(* SpecXfer: one run of copy, of the archive push or of                    *)
(*   Image::create_config, with its concurrent per-layer tasks and the     *)
(*   target registry's blob store.                                         *)
(* SpecCopy: one call of Layer::copy (layer.rs).                           *)
(* SpecFilesystem: one call of Image::filesystem (image.rs).               *)
(* SpecFetchImage: one call of Index::fetch_image (index.rs).              *)
(* SpecDiscover: one call of discover_auth (registry.rs), built with the   *)
(*   feature "aws".                                                        *)
(* SpecUri: one command parsing its registry or object argument (uri.rs,   *)
(*   cmd/*.rs) up to the URL its registry is contacted with.               *)
(* SpecReference: Reference::to_string followed by Reference::from_str.    *)
(* SpecMediaType: a MediaType decoded from its wire string and encoded     *)
(*   again, or encoded and decoded again (models.rs), or given to          *)
(*   Decompress::new (compression.rs).                                     *)
(* SpecDocs: one run of copy as far as its documents go: the index and     *)
(*   the manifests fetched from the source and PUT to the target.          *)
(* SpecFindIndex: one call of find_index (cmd/push.rs) on an archive.      *)
(* SpecCopyInto: one call of Layer::copy whose writer is a Writer.         *)
(* SpecToOci: one call of Index::to_oci (index.rs).                        *)
(* SpecToTarball: one call of Image::to_tarball (image.rs).                *)
(***************************************************************************)
EXTENDS Integers, Sequences, FiniteSets, TLC

VARIABLES
    (* ---- struct Writer (layer.rs 321-332) ---- *)
    size,        \* Writer.size: the declared size of the blob
    upload_url,  \* Writer.upload_url: Option<String>
    index,       \* Writer.index
    digest,      \* Writer.digest: the bytes absorbed by the running Sha256
    active,      \* Writer.active: Option<Operation>, with the state of its future
    url_ok,      \* whether Registry::url() of the writer's uri converts to a Url
    (* ---- the world around the writer ---- *)
    reqs,        \* HTTP requests built by the writer, in order, each with its response
    inflight,    \* HTTP exchanges begun and not yet finished
    cur,         \* the buffer of the write call being polled, or NoBuf
    results,     \* completed write calls, in order: [len, ok]
    written,     \* concatenation of the buffers whose write call returned Ok
    panicked,    \* a completed future was polled again
    (* ---- one run of Copy::run, Push::run or Image::create_config ---- *)
    op,          \* which operation runs: "copy", "push" or "create_config"
    pc,          \* where the operation's own code stands
    rc,          \* what the operation returned: "running", then "ok" or "err"
    nimg,        \* index.manifests().len()
    img,         \* the number of the manifest entry being transferred
    image,       \* the manifest of that entry: [config, layers]
    cfg,         \* the transfer of the config blob (done inline)
    tasks,       \* the spawned per-layer transfers of the current image
    tblobs,      \* digests of the blobs the target registry holds
    sdamaged,    \* digests of the blobs whose bytes at the source are not theirs
    mput,        \* the manifest PUTs issued, in order
    iput,        \* the index PUT: "none", "ok" or "fail"
    (* ---- one call of Layer::copy (layer.rs 45-74) ---- *)
    csize,       \* the argument size
    cavail,      \* the number of bytes the reader holds
    cindex,      \* the local index
    cread,       \* the number of bytes taken from the reader so far
    cwrites,     \* the lengths of the buffers given to write_all, in order
    crc,         \* "running", then "ok", "read_err" or "write_err"
    (* ---- one call of Image::filesystem (image.rs 119-152) ---- *)
    layers,      \* self.layers, bottom first: each the entries of its tar archive
    fiter,       \* the iterator over the layers: the numbers of those still to come
    fpos,        \* the next entry of the layer being read (0: not opened yet)
    filemap,     \* the HashSet of the paths emitted
    archive,     \* the entries appended to the output archive, in order
    frc,         \* "running", then "ok" or "err"
    (* ---- one call of Index::fetch_image (index.rs 75-127) ---- *)
    manifests,   \* self.manifests: the entries of the index, [digest, platform]
    platform,    \* the argument platform: Option<Platform>
    current,     \* Platform::default() of the host
    ipc,         \* "select", "fetch", then "done"
    ichosen,     \* the entry found and the hint given to Image::fetch
    igets,       \* the references of the manifest GETs issued
    iresult,     \* what fetch_image returned
    (* ---- one call of discover_auth (registry.rs 38-117) ---- *)
    base,        \* registry.base(), as the sequence of its pieces
    files,       \* what each of the common auth files is on this host
    keychain,    \* what the OS keychain answers for the base
    ecr,         \* what the ECR authorization-token API would answer
    apc,         \* the number of the auth file to probe next; one more: the ECR
                 \* helpers come next; 0: discover_auth has returned
    aprobes,     \* the auth files read so far, in order
    ahelper,     \* the ECR helper consulted: "none", "public" or "private"
    aresult,     \* what discover_auth returned
    (* ---- one command parsing its argument (uri.rs, cmd/*.rs) ---- *)
    uarg,        \* the argument: a registry or an object uri, as its pieces
    ukind,       \* "registry" (catalog, list) or "object" (copy, push, pull, ...)
    insecure,    \* the command's --insecure flag
    upc,         \* "parse", "flag", "url", then "done"
    uuri,        \* the Uri (or RegistryUri) the command holds, or the error
    uurl,        \* Registry::url(): the scheme and base the registry is contacted with
    (* ---- a Reference written and read back (uri.rs 143-204) ---- *)
    rval,        \* the Reference value
    rpc,         \* "value", "string", then "done"
    rstr,        \* rval.to_string()
    rback,       \* Reference::from_str(rstr)
    (* ---- a MediaType through serde (models.rs 40-108) ---- *)
    mdir,        \* "decode": a wire string is decoded, then encoded; "encode": a
                 \* value is encoded, then decoded
    mpc,         \* "first", "second", then "done"
    mstr,        \* the wire string given or produced by the first step
    mval,        \* the MediaType given or produced by the first step
    mstr2,       \* "decode": the string that mval is encoded to
    mval2,       \* "encode": the value that mstr is decoded to
    mdec,        \* "open": the decoder that Decompress::new has put on the stream
    (* ---- the documents of one run of Copy::run (cmd/copy.rs 30-106) ---- *)
    srcref,      \* source.reference()
    tgtref,      \* target.reference()
    sindex,      \* the body the source registry holds for the index
    smanifests,  \* the bodies the source registry holds for the index's entries
    dpc,         \* "index", "image", "blobs", "push", "push_index", then "done"
    dimg,        \* the number of the entry the loop is at
    dindex,      \* the Index that Index::fetch returned
    dimage,      \* the Image that Image::fetch returned
    dpresent,    \* the entries whose config and layers are all at the target
    dputs,       \* the manifest PUTs sent to the target, in order
    drc,         \* "running", then "ok" or "err"
    (* ---- one call of find_index (cmd/push.rs 165-197) ---- *)
    narchive,    \* the archive: what afind finds for each digest
    nindex,      \* the argument index of the innermost call: its manifests
    nk,          \* the manifest that call's loop is at
    nchain,      \* the digests of the nested indices entered so far, in order
    nresult,     \* what find_index returned
    (* ---- one call of Index::to_oci (index.rs 145-242) or of
            Image::to_tarball (image.rs 202-256) ---- *)
    eop,         \* "to_oci" or "to_tarball" ("none": no call)
    eindex,      \* to_oci: self.manifests, each entry with the image it names
    eplat,       \* to_oci: the platform argument, NoPlatform standing for None
    ekept,       \* to_oci: index.manifests after the filter
    ek,          \* to_oci: the entry of ekept that the loop is at
    eimage,      \* the image whose blobs are fetched
    epc,         \* "start", "image", "config", "spawn", "join", "archive", "done"
    etasks,      \* the spawned layer tasks, in the order of the layers
    edone,       \* the numbers of the finished tasks, in the order they finished
    egets,       \* the requests sent to the registry, in order
    etmp,        \* the names of the files in the temporary directory
    ejson,       \* the document written as index.json or manifest.json
    eout,        \* the names of the files written to the output
    erc          \* "running", then "ok" or the error

wvars == <<size, upload_url, index, digest, active, url_ok,
           reqs, inflight, cur, results, written, panicked>>

xvars == <<op, sdamaged, pc, rc, nimg, img, image, cfg, tasks, tblobs, mput,
           iput>>

cvars == <<csize, cavail, cindex, cread, cwrites, crc>>

\* the state of the functions that are modelled on their own
fvars == <<layers, fiter, fpos, filemap, archive, frc>>

ivars == <<manifests, platform, current, ipc, ichosen, igets, iresult>>

avars == <<base, files, keychain, ecr, apc, aprobes, ahelper, aresult>>

pvars == <<cvars, fvars, ivars, avars>>

uvars == <<uarg, ukind, insecure, upc, uuri, uurl>>

rvars == <<rval, rpc, rstr, rback>>

mvars == <<mdir, mpc, mstr, mval, mstr2, mval2, mdec>>

dvars == <<srcref, tgtref, sindex, smanifests, dpc, dimg, dindex, dimage,
           dpresent, dputs, drc>>

nvars == <<narchive, nindex, nk, nchain, nresult>>

evars == <<eop, eindex, eplat, ekept, ek, eimage, epc, etasks, edone, egets, etmp,
           ejson, eout, erc>>

\* the state of the parsers and encoders that are modelled on their own
qvars == <<uvars, rvars, mvars, dvars, nvars, evars>>

vars == <<wvars, xvars, pvars, qvars>>

(* ------------------------------ bounds --------------------------------- *)
MaxSize == 2      \* declared sizes 0..MaxSize
MaxLen == 2       \* buffers of 0..MaxLen bytes
MaxWrites == 3    \* write calls per writer
MaxReqs == 4      \* 2xx answers without Location stop once this many requests exist
MaxImages == 2    \* manifest entries of an index: 0..MaxImages
MaxLayers == 2    \* layers of an image: 0..MaxLayers
MiB == 1          \* byte counts of Layer::copy are counted in units of 1 MiB / MiB
MaxCopySize == 5200  \* sizes given to Layer::copy: 0..MaxCopySize
MaxFsLayers == 2  \* layers of a flattened image: 0..MaxFsLayers
MaxEntries == 4   \* tar entries of a flattened image, all layers together
MaxManifests == 3 \* entries of the index given to fetch_image: 0..MaxManifests
MaxPath == 2      \* names in the repository path of an object uri: 1..MaxPath
MaxRefLen == 3    \* pieces of the string of a Reference value: 0..MaxRefLen
MaxDocs == 2      \* entries of the index that copy's documents run over: 0..MaxDocs
MaxBlobs == 2     \* blobs of the archive given to find_index: 1..MaxBlobs
MaxBlobSize == 11 \* MiB of the blobs that Layer::copy feeds to a Writer

(* ------------------------------ values --------------------------------- *)
\* No write call is open: not a buffer, whose bytes are all >= 1.
NoBuf == <<-1>>
NoUrl == "None"
Location == "/u/1"
NoOp == [op |-> "None", fut |-> "none"]
NoDigest == [algo |-> "none", hex |-> << >>]

\* The buffer of the k-th write call: n bytes, each equal to k, so that buffers of
\* different calls differ and the order of concatenation is visible.
MkBuf(k, n) == [i \in 1..n |-> k]

\* Sha256::update: the hasher absorbs the bytes in order.
Sha256Update(h, buf) == h \o buf

\* "sha256:" + base16::encode_lower(finalize()): collision-free, so the digest is
\* identified with the byte string that was absorbed.
Sha256Digest(h) == [algo |-> "sha256", hex |-> h]

\* write: the number of the write call whose poll built the request; text: what
\* became of reading the body of a non-2xx response ("none", "body" or "io_err").
\* The repository of the writer's uri: Uri::repository().
Repository == "repo"

\* client.rs 140-217: the path that each client call joins onto the registry's
\* url, as the pieces the format! strings put together, and the digest of its
\* "digest=" query. post_blob and start_upload name the repository;
\* upload_part and finish_blob_upload are given the writer's upload_url as
\* `upload` and place it twice: "/v2/{upload}/blobs/uploads/{upload}".
RequestUrl(kind, dg) ==
    CASE kind \in {"start_upload", "post_blob"} ->
            [path |-> <<"/v2/", Repository, "/blobs/uploads/">>, query |-> dg]
      [] kind \in {"upload_part", "finish_blob_upload"} ->
            [path |-> <<"/v2/", upload_url, "/blobs/uploads/", upload_url>>,
             query |-> dg]

Request(kind, body, dg, start, end) ==
    [kind |-> kind, body |-> body, digest |-> dg, start |-> start, end |-> end,
     resp |-> "pending", write |-> Len(results) + 1, text |-> "none",
     url |-> RequestUrl(kind, dg)]

(* ------------------------- Writer::layer ------------------------------- *)
\* layer.rs 343-362: size is self.index, digest the finalized running hash.
WriterLayer == [size |-> index, digest |-> Sha256Digest(digest)]

(* ----------------------- Writer::poll_write ---------------------------- *)
\* The poll returned Poll::Pending: the write call stays open with its buffer.
Pending(buf) ==
    /\ cur' = buf
    /\ UNCHANGED <<results, written>>

\* The poll returned Poll::Ready: the write call ends with Ok(len) or with
\* Err(io::Error::other(e)), e being the text of a response body ("body") or an
\* error of the client ("other").
ReadyWith(buf, ok, e) ==
    /\ cur' = NoBuf
    /\ results' = Append(results, [len |-> Len(buf), ok |-> ok, err |-> e])
    /\ written' = IF ok THEN written \o buf ELSE written

Ready(buf, ok) == ReadyWith(buf, ok, IF ok THEN "none" ELSE "other")

\* A client future is created and stored in this.active.
Issue(kind, r) ==
    /\ active' = [op |-> kind, fut |-> "pending"]
    /\ reqs' = Append(reqs, r)
    /\ inflight' = inflight + 1

HasActive_NeverActive == FALSE

\* layer.rs 372: if let Some(operation) = this.active.as_mut()
HasActive == active.op # "None"

\* layer.rs 374-398: Operation::Start
PollStart(buf) ==
    CASE active.fut = "ok" ->
            /\ active' = NoOp
            /\ upload_url' = Location
            /\ Pending(buf)
            /\ UNCHANGED <<index, digest, reqs, inflight, panicked>>
      [] active.fut = "ok_noloc" ->
            \* headers().get("Location") is None: upload_url stays None
            /\ active' = NoOp
            /\ upload_url' = NoUrl
            /\ Pending(buf)
            /\ UNCHANGED <<index, digest, reqs, inflight, panicked>>
      [] active.fut = "status_fail" ->
            /\ active' = [op |-> "Error", fut |-> "pending"]
            /\ Pending(buf)
            /\ UNCHANGED <<upload_url, index, digest, reqs, inflight, panicked>>
      [] active.fut = "io_err" ->
            \* Ready(Err(e)) without clearing this.active: the future is spent
            /\ active' = [active EXCEPT !.fut = "done"]
            /\ Ready(buf, FALSE)
            /\ UNCHANGED <<upload_url, index, digest, reqs, inflight, panicked>>
      [] active.fut = "pending" ->
            \* Poll::Pending from the future: nothing changes
            /\ Pending(buf)
            /\ UNCHANGED <<upload_url, index, digest, active, reqs, inflight, panicked>>

\* layer.rs 399-423: Operation::Upload
PollUpload(buf) ==
    CASE active.fut = "ok" ->
            /\ active' = NoOp
            /\ Ready(buf, TRUE)
            /\ UNCHANGED <<upload_url, index, digest, reqs, inflight, panicked>>
      [] active.fut = "status_fail" ->
            /\ active' = [op |-> "Error", fut |-> "pending"]
            /\ Pending(buf)
            /\ UNCHANGED <<upload_url, index, digest, reqs, inflight, panicked>>
      [] active.fut = "io_err" ->
            /\ active' = [active EXCEPT !.fut = "done"]
            /\ Ready(buf, FALSE)
            /\ UNCHANGED <<upload_url, index, digest, reqs, inflight, panicked>>
      [] active.fut = "pending" ->
            \* Poll::Pending from the future: nothing changes
            /\ Pending(buf)
            /\ UNCHANGED <<upload_url, index, digest, active, reqs, inflight, panicked>>

PollError_ReportsWritten(buf) ==
    CASE active.fut = "body" ->
            /\ active' = NoOp
            /\ Ready(buf, TRUE)
            /\ UNCHANGED <<upload_url, index, digest, reqs, inflight, panicked>>
      [] active.fut = "io_err" ->
            /\ active' = [active EXCEPT !.fut = "done"]
            /\ Ready(buf, FALSE)
            /\ UNCHANGED <<upload_url, index, digest, reqs, inflight, panicked>>
      [] active.fut = "pending" ->
            /\ Pending(buf)
            /\ UNCHANGED <<upload_url, index, digest, active, reqs, inflight, panicked>>

\* layer.rs 424-436: Operation::Error (reading the body of a non-2xx response)
PollError(buf) ==
    CASE active.fut = "body" ->
            \* Err(io::Error::other(String::from_utf8_lossy(response)))
            /\ active' = NoOp
            /\ ReadyWith(buf, FALSE, "body")
            /\ UNCHANGED <<upload_url, index, digest, reqs, inflight, panicked>>
      [] active.fut = "io_err" ->
            /\ active' = [active EXCEPT !.fut = "done"]
            /\ Ready(buf, FALSE)
            /\ UNCHANGED <<upload_url, index, digest, reqs, inflight, panicked>>
      [] active.fut = "pending" ->
            \* Poll::Pending from the future: nothing changes
            /\ Pending(buf)
            /\ UNCHANGED <<upload_url, index, digest, active, reqs, inflight, panicked>>

\* layer.rs 372-437: an operation is active; its future is polled.  A future that
\* already returned Ready panics when polled again.
PollActive(buf) ==
    IF active.fut = "done"
    THEN /\ panicked' = TRUE
         /\ cur' = NoBuf
         /\ UNCHANGED <<upload_url, index, digest, active, reqs, inflight,
                        results, written>>
    ELSE CASE active.op = "Start" -> PollStart(buf)
           [] active.op = "Upload" -> PollUpload(buf)
           [] active.op = "Error" -> PollError(buf)

\* layer.rs 439-458: the buffer reaches the declared size: final PUT
FinishUpload(buf) ==
    LET d == Sha256Update(digest, buf) IN
    /\ digest' = d
    /\ IF url_ok
       THEN /\ Issue("Upload", Request("finish_blob_upload", buf, Sha256Digest(d),
                                       index, size))
            /\ index' = index + Len(buf)
            /\ Pending(buf)
       ELSE /\ Ready(buf, FALSE)
            /\ UNCHANGED <<index, active, reqs, inflight>>
    /\ UNCHANGED <<upload_url, panicked>>

UploadPart_NoHash(buf) ==
    IF url_ok
    THEN /\ Issue("Upload", Request("upload_part", buf, NoDigest,
                                    index, index + Len(buf)))
         /\ index' = index + Len(buf)
         /\ Pending(buf)
         /\ UNCHANGED <<upload_url, digest, panicked>>
    ELSE /\ Ready(buf, FALSE)
         /\ UNCHANGED <<upload_url, index, digest, active, reqs, inflight, panicked>>

\* layer.rs 459-475: PATCH of one chunk
UploadPart(buf) ==
    IF url_ok
    THEN /\ Issue("Upload", Request("upload_part", buf, NoDigest,
                                    index, index + Len(buf)))
         /\ index' = index + Len(buf)
         /\ digest' = Sha256Update(digest, buf)
         /\ Pending(buf)
         /\ UNCHANGED <<upload_url, panicked>>
    ELSE /\ Ready(buf, FALSE)
         /\ UNCHANGED <<upload_url, index, digest, active, reqs, inflight, panicked>>

\* layer.rs 476-493: no upload started and the buffer is the whole blob
PostBlob(buf) ==
    LET d == Sha256Update(digest, buf) IN
    /\ digest' = d
    /\ IF url_ok
       THEN /\ Issue("Upload", Request("post_blob", buf, Sha256Digest(d), 0, Len(buf)))
            /\ index' = Len(buf)
            /\ Pending(buf)
       ELSE /\ Ready(buf, FALSE)
            /\ UNCHANGED <<index, active, reqs, inflight>>
    /\ UNCHANGED <<upload_url, panicked>>

\* layer.rs 494-507: start a chunked upload
StartUpload(buf) ==
    IF url_ok
    THEN /\ Issue("Start", Request("start_upload", << >>, NoDigest, 0, 0))
         /\ index' = 0
         /\ Pending(buf)
         /\ UNCHANGED <<upload_url, digest, panicked>>
    ELSE /\ Ready(buf, FALSE)
         /\ UNCHANGED <<upload_url, index, digest, active, reqs, inflight, panicked>>

\* layer.rs 439: this.index + buf.len() >= this.size
IsFinalChunk(buf) == index + Len(buf) >= size

\* layer.rs 476: buf.len() == this.size
IsWholeBlob(buf) == Len(buf) = size

\* layer.rs 438-507: no operation is active
PollIdle(buf) ==
    IF upload_url # NoUrl
    THEN IF IsFinalChunk(buf) THEN FinishUpload(buf) ELSE UploadPart(buf)
    ELSE IF IsWholeBlob(buf) THEN PostBlob(buf) ELSE StartUpload(buf)

\* layer.rs 366-508
PollWrite(buf) ==
    IF HasActive THEN PollActive(buf) ELSE PollIdle(buf)

(* ------------------------------ actions -------------------------------- *)
\* The caller starts a write call (AsyncWriteExt::write) and polls it once.
WriteCall ==
    /\ ~panicked
    /\ cur = NoBuf
    /\ Len(results) < MaxWrites
    /\ \E n \in 0..MaxLen : PollWrite(MkBuf(Len(results) + 1, n))
    /\ UNCHANGED <<size, url_ok>>
    /\ UNCHANGED <<xvars, pvars, qvars>>

\* The write future is woken (wake_by_ref) and polls again with the same buffer.
Repoll ==
    /\ ~panicked
    /\ cur # NoBuf
    /\ PollWrite(cur)
    /\ UNCHANGED <<size, url_ok>>
    /\ UNCHANGED <<xvars, pvars, qvars>>

\* The registry (or the transport) answers the request of the active future.
Answers ==
    CASE active.op = "Start" ->
            {"ok", "status_fail", "io_err"} \cup
            (IF Len(reqs) < MaxReqs THEN {"ok_noloc"} ELSE {})
      [] active.op = "Upload" -> {"ok", "status_fail", "io_err"}
      [] active.op = "Error" -> {"body", "io_err"}
      [] OTHER -> {}

Respond ==
    /\ active.fut = "pending"
    /\ \E a \in Answers :
        /\ active' = [active EXCEPT !.fut = a]
        /\ reqs' = IF active.op = "Error"
                   THEN [reqs EXCEPT ![Len(reqs)].text = a]
                   ELSE [reqs EXCEPT ![Len(reqs)].resp = a]
        \* a non-2xx response stays open until its body has been read
        /\ inflight' = IF a = "status_fail" THEN inflight ELSE inflight - 1
    /\ UNCHANGED <<size, upload_url, index, digest, url_ok, cur, results, written,
                   panicked>>
    /\ UNCHANGED <<xvars, pvars, qvars>>

\* layer.rs 98-117: the Writer as Layer::create constructs it
FreshWriter(s, u) ==
    /\ size = s
    /\ upload_url = NoUrl
    /\ index = 0
    /\ digest = << >>
    /\ active = NoOp
    /\ url_ok = u
    /\ reqs = << >>
    /\ inflight = 0
    /\ cur = NoBuf
    /\ results = << >>
    /\ written = << >>
    /\ panicked = FALSE

(* ============ copy, archive push and create_config =================== *)
ConfigDigest == "c"
NewConfigDigest == "n"
LayerDigests == {"a", "z"}
Digests == {ConfigDigest, NewConfigDigest} \cup LayerDigests
\* The blobs that a source may hold with bytes that are not theirs.
SourceBlobs == {"a"}
\* Layer.size of a blob: "z" is an empty blob.
BlobSize(d) == IF d = "z" THEN 0 ELSE 1
NoDigestArg == "None"
LayerLists == UNION {[1..n -> LayerDigests] : n \in 0..MaxLayers}
NoImage == [config |-> ConfigDigest, layers |-> << >>]

\* One blob transfer: d the blob, dopt the digest argument given to Layer::create,
\* head the answer of the HEAD blob request (none issued: "none"), read whether the
\* source blob was opened or read, upl what became of the writer's requests, sent
\* the digest of the bytes that were streamed into the writer ("none": no bytes).
NewTask(d, dopt, at) ==
    [d |-> d, dopt |-> dopt, pc |-> at, head |-> "none", read |-> FALSE, upl |-> "none",
     sent |-> "none"]
Finished(t) == t.pc \in {"ok", "err"}
NoTask == [d |-> ConfigDigest, dopt |-> NoDigestArg, pc |-> "ok", head |-> "none",
           read |-> FALSE, upl |-> "none", sent |-> "none"]

NoRun ==
    /\ op = "none" /\ pc = "done" /\ rc = "ok" /\ nimg = 0 /\ img = 0
    /\ image = NoImage /\ cfg = NoTask /\ tasks = << >> /\ tblobs = {}
    /\ mput = << >> /\ iput = "none" /\ sdamaged = {}

StartRun(o, held) ==
    /\ op = o /\ rc = "running" /\ nimg = 0 /\ img = 0
    /\ image = NoImage /\ tasks = << >> /\ tblobs = held
    /\ mput = << >> /\ iput = "none"
    /\ pc = IF o = "create_config" THEN "config" ELSE "index"
    \* image.rs 339: Layer::create(uri, &MediaType::Config, len, None)
    /\ cfg = IF o = "create_config"
             THEN NewTask(NewConfigDigest, NoDigestArg, "create")
             ELSE NoTask

Return(r) == pc' = "done" /\ rc' = r

\* registry.rs 163-171 check_blob: HEAD blob; success status iff the registry holds it.
HeadAnswers(d) == {IF d \in tblobs THEN "hit" ELSE "miss", "err"}

CheckBlobSkips_Never(head) == FALSE

\* layer.rs 86-93 (141-152): check_blob returned true: return Ok(None)
CheckBlobSkips(head) == head = "hit"

\* What follows Layer::create when it returned a writer.
AfterCreate == IF op = "copy" THEN "open" ELSE "copy"

\* layer.rs 77-120, 124-165 Layer::create / create_progress: the states the
\* transfer t can be in when create returns
LayerCreate(t) ==
    IF t.dopt = NoDigestArg
    THEN {[t EXCEPT !.pc = AfterCreate]}
    ELSE {[t EXCEPT !.head = a,
                    !.pc = IF a = "err" THEN "err"
                           ELSE IF CheckBlobSkips(a) THEN "ok"
                           ELSE AfterCreate] : a \in HeadAnswers(t.dopt)}

\* The digest of bytes that are not the bytes of any blob of the index.
Damaged == "x"

\* The digests that the bytes streamed for blob d hash to: the source registry or
\* the archive hands out the blob's bytes, or other bytes for a blob that is
\* damaged there; create_config streams the bytes it has made the descriptor
\* from.
StreamDigests(d) == IF d \in sdamaged THEN {Damaged} ELSE {d}

\* copy.rs 64-65, 87-88, push.rs 86-87, 118-119: Layer::copy(..).await? and
\* writer.layer().await?, whose Layer (layer.rs 343-362: the digest of the bytes
\* written) is dropped: the transfer's result when every request succeeded and
\* the bytes hash to sd.
LayerResult(t, sd) == "ok"

\* Layer::copy (layer.rs 45-74) followed by writer.layer(): the pairs of the
\* transfer's next state and the target's blob store. The writer puts the digest
\* of the bytes it was given into the finalizing request (layer.rs 443-455,
\* 480-490), so the registry stores them under that digest; tblobs holds the
\* blobs of the index only.
LayerCopy(t) ==
    IF op # "create_config" /\ BlobSize(t.d) = 0
    THEN \* while index < size never runs: nothing is read or written
         {<<[t EXCEPT !.pc = "ok"], tblobs>>}
    ELSE (IF op = "create_config" THEN {}
          ELSE \* read_exact fails before any write
               {<<[t EXCEPT !.read = TRUE, !.pc = "err"], tblobs>>})
         \cup
         {<<[t EXCEPT !.read = (op # "create_config"), !.upl = "fail", !.pc = "err"],
            tblobs>>}
         \cup
         {<<[t EXCEPT !.read = (op # "create_config"), !.upl = "ok", !.sent = sd,
                      !.pc = LayerResult(t, sd)],
            tblobs \cup ({sd} \cap Digests)>> : sd \in StreamDigests(t.d)}

\* One step of a blob transfer (copy.rs 53-66, 75-90; push.rs 76-88, 97-120;
\* image.rs 339-347): the pairs of its next state and the target's blob store.
TaskStep(t) ==
    CASE t.pc = "find" ->
            \* push.rs 66-74, 98-106: afind of the blob in the archive
            {<<[t EXCEPT !.pc = IF found THEN "create" ELSE "err"], tblobs>> :
                found \in BOOLEAN}
      [] t.pc = "create" ->
            {<<tt, tblobs>> : tt \in LayerCreate(t)}
      [] t.pc = "open" ->
            \* copy.rs 63, 86: layer.open(&source): GET blob at the source
            {<<[t EXCEPT !.read = TRUE, !.pc = IF okay THEN "copy" ELSE "err"],
               tblobs>> : okay \in BOOLEAN}
      [] t.pc = "copy" -> LayerCopy(t)

\* copy.rs 35 Index::fetch; push.rs 37-49 index.json and find_index
FetchIndex ==
    /\ pc = "index"
    /\ \/ \E n \in 0..MaxImages :
            /\ nimg' = n
            /\ pc' = IF n = 0 THEN "put_index" ELSE "image"
            /\ rc' = rc
       \/ Return("err") /\ nimg' = nimg
    /\ UNCHANGED <<op, sdamaged, img, image, cfg, tasks, tblobs, mput, iput>>
    /\ UNCHANGED <<wvars, pvars, qvars>>

\* copy.rs 38-52 Image::fetch of the next entry; push.rs 51-74 its manifest blob
FetchImage ==
    /\ pc = "image"
    /\ img' = img + 1
    /\ \/ \E ls \in LayerLists :
            /\ image' = [config |-> ConfigDigest, layers |-> ls]
            /\ cfg' = NewTask(ConfigDigest, ConfigDigest,
                              IF op = "push" THEN "find" ELSE "create")
            /\ tasks' = << >>
            /\ pc' = "config"
            /\ rc' = rc
       \/ Return("err") /\ UNCHANGED <<image, cfg, tasks>>
    /\ UNCHANGED <<op, sdamaged, nimg, tblobs, mput, iput>>
    /\ UNCHANGED <<wvars, pvars, qvars>>

\* copy.rs 53-66, push.rs 66-88, image.rs 339-347: the config blob, inline
ConfigStep ==
    /\ pc = "config"
    /\ ~Finished(cfg)
    /\ \E s \in TaskStep(cfg) :
          /\ cfg' = s[1]
          /\ tblobs' = s[2]
    /\ UNCHANGED <<op, sdamaged, pc, rc, nimg, img, image, tasks, mput, iput>>
    /\ UNCHANGED <<wvars, pvars, qvars>>

\* the ? after the config transfer
AfterConfig ==
    /\ pc = "config"
    /\ Finished(cfg)
    /\ IF cfg.pc = "err" THEN Return("err")
       ELSE IF op = "create_config" THEN Return("ok")
       ELSE pc' = "spawn" /\ rc' = rc
    /\ UNCHANGED <<op, sdamaged, nimg, img, image, cfg, tasks, tblobs, mput, iput>>
    /\ UNCHANGED <<wvars, pvars, qvars>>

LayerTask(d) == NewTask(d, d, IF op = "push" THEN "find" ELSE "create")

\* copy.rs 68-92, push.rs 89-122: one task per layer
Spawn ==
    /\ pc = "spawn"
    /\ tasks' = [i \in 1..Len(image.layers) |-> LayerTask(image.layers[i])]
    /\ pc' = "join"
    /\ UNCHANGED <<op, sdamaged, rc, nimg, img, image, cfg, tblobs, mput, iput>>
    /\ UNCHANGED <<wvars, pvars, qvars>>

\* push.rs 92: File::open fails after k tasks were spawned
SpawnFail ==
    /\ pc = "spawn"
    /\ op = "push"
    /\ \E k \in 0..(Len(image.layers) - 1) :
          tasks' = [i \in 1..k |-> LayerTask(image.layers[i])]
    /\ Return("err")
    /\ UNCHANGED <<op, sdamaged, nimg, img, image, cfg, tblobs, mput, iput>>
    /\ UNCHANGED <<wvars, pvars, qvars>>

\* a spawned layer task runs one step
LayerStep ==
    /\ \E i \in 1..Len(tasks) :
          /\ ~Finished(tasks[i])
          /\ \E s \in TaskStep(tasks[i]) :
                /\ tasks' = [tasks EXCEPT ![i] = s[1]]
                /\ tblobs' = s[2]
    /\ UNCHANGED <<op, sdamaged, pc, rc, nimg, img, image, cfg, mput, iput>>
    /\ UNCHANGED <<wvars, pvars, qvars>>

AnyTaskFailed == \E i \in 1..Len(tasks) : tasks[i].pc = "err"

JoinChecksResults_Never == FALSE

\* push.rs 123-126: each task's result is unwrapped with ?;
\* copy.rs 93: join_all(tasks).await; the results are dropped
JoinChecksResults == op = "push"

\* copy.rs 93, push.rs 123-126
Join ==
    /\ pc = "join"
    /\ \A i \in 1..Len(tasks) : Finished(tasks[i])
    /\ IF JoinChecksResults /\ AnyTaskFailed
       THEN Return("err")
       ELSE pc' = "put_manifest" /\ rc' = rc
    /\ UNCHANGED <<op, sdamaged, nimg, img, image, cfg, tasks, tblobs, mput, iput>>
    /\ UNCHANGED <<wvars, pvars, qvars>>

PushManifestOk_Always(status) == TRUE

\* registry.rs 277-296: put_manifest(...).await? and ensure!(status.is_success())
PushManifestOk(status) == status = "success"

ImageBlobs == {image.config} \cup {image.layers[i] : i \in 1..Len(image.layers)}

\* copy.rs 94-100, push.rs 127-133: image.push(&manifest_uri).await?
PutManifest ==
    /\ pc = "put_manifest"
    /\ \E status \in {"success", "failure", "io_err"} :
          /\ mput' = Append(mput,
                [img |-> img, ok |-> status = "success",
                 absent |-> ImageBlobs \ tblobs,
                 failed |-> cfg.pc = "err" \/ AnyTaskFailed,
                 unfinished |-> (~Finished(cfg)
                                    \/ \E i \in 1..Len(tasks) : ~Finished(tasks[i])
                                    \/ Len(tasks) # Len(image.layers))])
          /\ IF PushManifestOk(status)
             THEN /\ pc' = IF img < nimg THEN "image" ELSE "put_index"
                  /\ rc' = rc
             ELSE Return("err")
    /\ UNCHANGED <<op, sdamaged, nimg, img, image, cfg, tasks, tblobs, iput>>
    /\ UNCHANGED <<wvars, pvars, qvars>>

\* copy.rs 103-105, push.rs 136-138: index.push(&target).await?; Ok(())
PutIndex ==
    /\ pc = "put_index"
    /\ \E status \in {"success", "failure", "io_err"} :
          /\ iput' = IF status = "success" THEN "ok" ELSE "fail"
          /\ Return(IF PushManifestOk(status) THEN "ok" ELSE "err")
    /\ UNCHANGED <<op, sdamaged, nimg, img, image, cfg, tasks, tblobs, mput>>
    /\ UNCHANGED <<wvars, pvars, qvars>>

(* ========================= Layer::copy ================================ *)
\* layer.rs 23, 25
MIN_CHUNK_SIZE == 5 * MiB
MAX_CHUNK_SIZE == 128 * MiB

Min(a, b) == IF a <= b THEN a ELSE b

\* Ord::clamp
Clamp(v, lo, hi) == IF v < lo THEN lo ELSE IF v > hi THEN hi ELSE v

ChunkSize_Unclamped(n) == n \div 40

\* layer.rs 59: (size / 40).clamp(MIN_CHUNK_SIZE, MAX_CHUNK_SIZE)
ChunkSize(n) == Clamp(n \div 40, MIN_CHUNK_SIZE, MAX_CHUNK_SIZE)

NoCopy ==
    /\ csize = 0 /\ cavail = 0 /\ cindex = 0 /\ cread = 0
    /\ cwrites = << >> /\ crc = "ok"

\* layer.rs 45-59: the call, with a reader that holds a bytes
StartCopy(n, a) ==
    /\ csize = n /\ cavail = a /\ cindex = 0 /\ cread = 0
    /\ cwrites = << >> /\ crc = "running"

\* layer.rs 60-71: one turn of the loop
CopyChunk ==
    /\ crc = "running"
    /\ cindex < csize
    /\ LET chunk_size == ChunkSize(csize)
           read_size == Min(chunk_size, csize - cindex)
       IN IF cavail - cread < read_size
          THEN \* read_exact meets the end of the reader: UnexpectedEof
               /\ cread' = cavail
               /\ crc' = "read_err"
               /\ UNCHANGED <<cindex, cwrites>>
          ELSE /\ cread' = cread + read_size
               /\ cwrites' = Append(cwrites, read_size)
               /\ \/ cindex' = cindex + chunk_size /\ crc' = crc
                  \/ \* write_all returns an error
                     crc' = "write_err" /\ cindex' = cindex
    /\ UNCHANGED <<csize, cavail>>
    /\ UNCHANGED <<wvars, xvars, fvars, ivars, avars, qvars>>

\* layer.rs 60, 73: the loop ends, Ok(())
CopyReturn ==
    /\ crc = "running"
    /\ cindex >= csize
    /\ crc' = "ok"
    /\ UNCHANGED <<csize, cavail, cindex, cread, cwrites>>
    /\ UNCHANGED <<wvars, xvars, fvars, ivars, avars, qvars>>

(* --------------- Layer::copy into a Writer (layer.rs 45-74) ------------ *)
LoopRuns_DoWhile(i, n) == i < n \/ i = 0

\* layer.rs 60: while index < size
LoopRuns(i, n) == i < n

\* The copy is at the top of its loop: every write_all so far has returned Ok
\* and index has been advanced past it.
AtLoopTop ==
    /\ crc = "running"
    /\ cur = NoBuf
    /\ Len(results) = Len(cwrites)
    /\ cindex = Len(cwrites) * ChunkSize(csize)

\* layer.rs 61-69: read_exact of min(chunk_size, size - index) bytes, then
\* write_all of them, whose first poll is Writer::poll_write
CopyRead ==
    /\ AtLoopTop
    /\ LoopRuns(cindex, csize)
    /\ ~panicked
    /\ LET read_size == Min(ChunkSize(csize), csize - cindex)
       IN IF cavail - cread < read_size
          THEN /\ cread' = cavail
               /\ crc' = "read_err"
               /\ UNCHANGED <<cwrites, wvars>>
          ELSE /\ cread' = cread + read_size
               /\ cwrites' = Append(cwrites, read_size)
               /\ PollWrite(MkBuf(Len(results) + 1, read_size))
               /\ UNCHANGED <<crc, size, url_ok>>
    /\ UNCHANGED <<csize, cavail, cindex>>
    /\ UNCHANGED <<xvars, fvars, ivars, avars, qvars>>

\* layer.rs 66-71: write_all has returned: ? on its error, index += chunk_size
CopyWritten ==
    /\ crc = "running"
    /\ cur = NoBuf
    /\ Len(cwrites) >= 1
    /\ Len(results) = Len(cwrites)
    /\ cindex = (Len(cwrites) - 1) * ChunkSize(csize)
    /\ IF results[Len(results)].ok
       THEN cindex' = cindex + ChunkSize(csize) /\ crc' = crc
       ELSE crc' = "write_err" /\ cindex' = cindex
    /\ UNCHANGED <<csize, cavail, cread, cwrites>>
    /\ UNCHANGED <<wvars, xvars, fvars, ivars, avars, qvars>>

\* layer.rs 60, 73: the loop ends, Ok(())
CopyDone ==
    /\ AtLoopTop
    /\ ~LoopRuns(cindex, csize)
    /\ crc' = "ok"
    /\ UNCHANGED <<csize, cavail, cindex, cread, cwrites>>
    /\ UNCHANGED <<wvars, xvars, fvars, ivars, avars, qvars>>

\* The write_all that the copy waits for is polled again.
CopyRepoll == crc = "running" /\ Repoll

(* ======================== Image::filesystem =========================== *)
\* A path is the sequence of its pieces, the marker ".wh." being one piece, so that
\* str::contains(WHITEOUT) is a search through the path.
WHITEOUT == ".wh."

\* str::contains
Contains(path, piece) == \E i \in 1..Len(path) : path[i] = piece

\* The tar entries of the layers: files and a directory, the whiteout of b.txt and
\* a file with the marker inside its name.
Entries ==
    { [path |-> <<"a.txt">>, kind |-> "file"],
      [path |-> <<"a.txt">>, kind |-> "dir"],
      [path |-> <<"b.txt">>, kind |-> "file"],
      [path |-> <<WHITEOUT, "b.txt">>, kind |-> "file"],
      [path |-> <<"x", WHITEOUT, "y">>, kind |-> "file"] }

RECURSIVE SumSeq(_)
SumSeq(q) == IF q = << >> THEN 0 ELSE q[1] + SumSeq(Tail(q))

\* The lists of layers with at most MaxEntries entries together: the lengths ls of
\* the layers and the entries f of all of them, cut into the layers.
LayerLens ==
    {ls \in UNION {[1..l -> 0..MaxEntries] : l \in 0..MaxFsLayers} :
        SumSeq(ls) <= MaxEntries}
CutLayers(f, ls) ==
    [i \in 1..Len(ls) |->
        SubSeq(f, SumSeq(SubSeq(ls, 1, i - 1)) + 1, SumSeq(SubSeq(ls, 1, i)))]

LayersRev_Forward(n) == [i \in 1..n |-> i]

\* image.rs 124: self.layers.iter().rev()
LayersRev(n) == [i \in 1..n |-> n + 1 - i]

NoFilesystem ==
    /\ layers = << >> /\ fiter = << >> /\ fpos = 0
    /\ filemap = {} /\ archive = << >> /\ frc = "ok"

\* image.rs 121-124: the call on an image with the layers ls
StartFilesystem(ls) ==
    /\ layers = ls /\ fiter = LayersRev(Len(ls)) /\ fpos = 0
    /\ filemap = {} /\ archive = << >> /\ frc = "running"

\* image.rs 125-127: layer.open(uri) and entries_raw() of the next layer
OpenLayer ==
    /\ frc = "running"
    /\ fiter # << >>
    /\ fpos = 0
    /\ \/ fpos' = 1 /\ frc' = frc
       \/ fpos' = fpos /\ frc' = "err"
    /\ UNCHANGED <<layers, fiter, filemap, archive>>
    /\ UNCHANGED <<wvars, xvars, cvars, ivars, avars, qvars>>

Skips_NoWhiteout(e) == e.kind = "file" /\ e.path \in filemap

Skips_NoFilemap(e) == Contains(e.path, WHITEOUT)

\* image.rs 136-140: the entry is passed over
Skips(e) ==
    \/ Contains(e.path, WHITEOUT)
    \/ (e.kind = "file" /\ e.path \in filemap)

\* image.rs 128-146: one entry of the open layer
ReadEntry ==
    /\ frc = "running"
    /\ fiter # << >>
    /\ fpos >= 1
    /\ fpos <= Len(layers[Head(fiter)])
    /\ LET e == layers[Head(fiter)][fpos] IN
       \/ \* the entry, its path or archive.append fails
          /\ frc' = "err"
          /\ UNCHANGED <<fpos, filemap, archive>>
       \/ /\ frc' = frc
          /\ fpos' = fpos + 1
          /\ IF Skips(e)
             THEN UNCHANGED <<filemap, archive>>
             ELSE /\ filemap' = filemap \cup {e.path}
                  /\ archive' = Append(archive,
                        [path |-> e.path, kind |-> e.kind,
                         layer |-> Head(fiter), pos |-> fpos])
    /\ UNCHANGED <<layers, fiter>>
    /\ UNCHANGED <<wvars, xvars, cvars, ivars, avars, qvars>>

\* image.rs 128, 124: the entries of the layer are exhausted; on to the next layer
EndLayer ==
    /\ frc = "running"
    /\ fiter # << >>
    /\ fpos > Len(layers[Head(fiter)])
    /\ fiter' = Tail(fiter)
    /\ fpos' = 0
    /\ UNCHANGED <<layers, filemap, archive, frc>>
    /\ UNCHANGED <<wvars, xvars, cvars, ivars, avars, qvars>>

\* image.rs 149-151: archive.finish()
Finish ==
    /\ frc = "running"
    /\ fiter = << >>
    /\ frc' \in {"ok", "err"}
    /\ UNCHANGED <<layers, fiter, fpos, filemap, archive>>
    /\ UNCHANGED <<wvars, xvars, cvars, ivars, avars, qvars>>

(* ======================== Index::fetch_image ========================== *)
NoPlatform == [os |-> "None", architecture |-> "None"]
\* models.rs 171-182: Platform::default() is linux/arm64 or linux/amd64
HostPlatforms ==
    { [os |-> "linux", architecture |-> "arm64"],
      [os |-> "linux", architecture |-> "amd64"] }
Platforms == HostPlatforms \cup {[os |-> "windows", architecture |-> "amd64"]}

\* Layer.digest of an entry: the pieces of its text before the value, and the
\* number n standing for the value, which differs from entry to entry.  The text is
\* that of a digest of a known algorithm, of an unknown one, or has no ':'.
DigestTexts == { <<"sha256", ":">>, <<"md5", ":">>, <<"latest">> }

\* uri.rs 151-161 Reference::from_str (Algorithm::from_str: 175-...)
ReferenceFromStr(str) ==
    IF Contains(str.text, ":")
    THEN IF str.text[1] \in {"sha256", "sha512"}
         THEN [kind |-> "Digest", str |-> str]
         ELSE [kind |-> "Err", str |-> str]
    ELSE [kind |-> "Tag", str |-> str]

FindPlatform_Last(p) ==
    LET hits == {i \in 1..Len(manifests) : manifests[i].platform = p}
    IN IF hits = {} THEN 0 ELSE CHOOSE i \in hits : \A j \in hits : j <= i

\* index.rs 81-84, 98-102: self.manifests.iter().find(|x| x.platform() == Some(p)),
\* 0 standing for None
FindPlatform(p) ==
    LET hits == {i \in 1..Len(manifests) : manifests[i].platform = p}
    IN IF hits = {} THEN 0 ELSE CHOOSE i \in hits : \A j \in hits : i <= j

NoChosen == [entry |-> 0, hint |-> NoPlatform]
Running == [kind |-> "running"]

NoFetchImage ==
    /\ manifests = << >> /\ platform = NoPlatform
    /\ current = [os |-> "linux", architecture |-> "amd64"]
    /\ ipc = "done" /\ ichosen = NoChosen /\ igets = << >>
    /\ iresult = [kind |-> "None"]

\* index.rs 75-79: the call
StartFetchImage(ms, p, host) ==
    /\ manifests = ms /\ platform = p /\ current = host
    /\ ipc = "select" /\ ichosen = NoChosen /\ igets = << >>
    /\ iresult = Running

\* The entry i was found: its digest is parsed (Reference::from_str(oci.digest())?)
\* and Image::fetch is called with the hint h.
Choose(i, h) ==
    IF ReferenceFromStr(manifests[i].digest).kind = "Err"
    THEN /\ ipc' = "done"
         /\ iresult' = [kind |-> "Err", error |-> "InvalidAlgorithm"]
         /\ ichosen' = ichosen
    ELSE /\ ipc' = "fetch"
         /\ ichosen' = [entry |-> i, hint |-> h]
         /\ iresult' = iresult

\* index.rs 80-125: the entry is selected
SelectImage ==
    /\ ipc = "select"
    /\ IF platform # NoPlatform
       THEN IF FindPlatform(platform) = 0
            THEN /\ ipc' = "done"
                 /\ iresult' = [kind |-> "Err", error |-> "IndexNoPlatform"]
                 /\ ichosen' = ichosen
            ELSE Choose(FindPlatform(platform), platform)
       ELSE IF FindPlatform(current) # 0
            THEN Choose(FindPlatform(current), current)
            ELSE IF Len(manifests) >= 1
                 THEN Choose(1, manifests[1].platform)
                 ELSE /\ ipc' = "done"
                      /\ iresult' = [kind |-> "None"]
                      /\ ichosen' = ichosen
    /\ UNCHANGED <<manifests, platform, current, igets>>
    /\ UNCHANGED <<wvars, xvars, cvars, fvars, avars, qvars>>

\* image.rs 66-77 Image::fetch(&new_uri, hint)
ImageFetch ==
    /\ ipc = "fetch"
    /\ ipc' = "done"
    /\ LET ref == ReferenceFromStr(manifests[ichosen.entry].digest) IN
       IF ref.kind # "Digest"
       THEN /\ iresult' = [kind |-> "Err", error |-> "DirectLoadImage"]
            /\ igets' = igets
       ELSE /\ igets' = Append(igets, ref.str)
            /\ \/ iresult' = [kind |-> "Some", digest |-> ref.str,
                               platform |-> ichosen.hint]
               \/ iresult' = [kind |-> "Err", error |-> "FetchManifest"]
    /\ UNCHANGED <<manifests, platform, current, ichosen>>
    /\ UNCHANGED <<wvars, xvars, cvars, fvars, avars, qvars>>

(* ========================== discover_auth ============================= *)
\* registry.rs 23
COMMON_AUTH_FILES_DockerFirst == <<".docker/config.json", ".finch/config.json">>

COMMON_AUTH_FILES == <<".finch/config.json", ".docker/config.json">>

\* Option<String>
NoneStr == [some |-> FALSE, val |-> << >>]
SomeStr(v) == [some |-> TRUE, val |-> v]

\* Strings are sequences of pieces, ":" being one piece.
\* str::starts_with
StartsWith(str, prefix) ==
    Len(str) >= Len(prefix) /\ SubSeq(str, 1, Len(prefix)) = prefix

\* str::split_once(':'): the parts before and after the first ':'
SplitOnce(str) ==
    LET i == CHOOSE k \in 1..Len(str) :
                 str[k] = ":" /\ \A j \in 1..(k - 1) : str[j] # ":"
    IN [username |-> SubSeq(str, 1, i - 1), password |-> SubSeq(str, i + 1, Len(str))]

\* base64 STANDARD: a value is stored encoded and decode gives back its text
Base64Encode(text) == [b64 |-> text]
Base64Decode(enc) == enc.b64

NoToken == [type |-> "None", value |-> << >>, username |-> << >>, password |-> << >>]
Bearer(v) == [type |-> "Bearer", value |-> v, username |-> << >>, password |-> << >>]
Basic(u, pw) == [type |-> "Basic", value |-> << >>, username |-> u, password |-> pw]
Ok(t) == [kind |-> "Ok", token |-> t, error |-> "none"]
Err(e) == [kind |-> "Err", token |-> NoToken, error |-> e]
Panic == [kind |-> "Panic", token |-> NoToken, error |-> "none"]
NotReturned == [kind |-> "running", token |-> NoToken, error |-> "none"]

\* models.rs 367-383 Token::parse, as the result of return Ok(Token::parse(entry))
TokenParse(value) ==
    IF value.identitytoken.some
    THEN Ok(Bearer(value.identitytoken.val))
    ELSE IF value.auth.some
         THEN LET decoded == Base64Decode(value.auth.val) IN
              IF Contains(decoded, ":")
              THEN Ok(Basic(SplitOnce(decoded).username, SplitOnce(decoded).password))
              ELSE \* split_once(':').unwrap() of None
                   Panic
         ELSE Ok(NoToken)

\* registry.rs 51-71: the entry has neither auth nor identitytoken
KeychainToken(entry) ==
    CASE keychain.kind = "unavailable" ->
            \* Entry::new failed: on to Token::parse(entry)
            TokenParse(entry)
      [] keychain.kind = "missing" -> Ok(NoToken)
      [] keychain.kind = "password" ->
            LET decoded == Base64Decode(keychain.password) IN
            IF Contains(decoded, ":")
            THEN Ok(Basic(SplitOnce(decoded).username, SplitOnce(decoded).password))
            ELSE Ok(Bearer(decoded))

\* What an auth file named f can be on the host: not there, unreadable, no JSON of
\* the expected shape, without an entry for the base, or with an entry.
FileStates(f) ==
    { [kind |-> k, auth |-> NoneStr, identitytoken |-> NoneStr] :
         k \in {"absent", "unreadable", "malformed", "no_entry"} }
    \cup
    { [kind |-> "entry", auth |-> a, identitytoken |-> t] :
         a \in {NoneStr,
                SomeStr(Base64Encode(<<f, "-user", ":", "pass", ":", "word">>)),
                SomeStr(Base64Encode(<<f, "-nocolon">>))},
         t \in {NoneStr, SomeStr(<<f, "-identitytoken">>)} }

KeychainStates ==
    { [kind |-> k, password |-> Base64Encode(<< >>)] : k \in {"unavailable", "missing"} }
    \cup
    { [kind |-> "password", password |-> Base64Encode(pw)] :
         pw \in { <<"chain-user", ":", "chain-pass">>, <<"chain-token">> } }

EcrStates ==
    { [kind |-> k, token |-> Base64Encode(<< >>)] : k \in {"api_err", "no_data"} }
    \cup
    { [kind |-> "token", token |-> Base64Encode(<<"AWS", ":", "ecr-pass">>)] }

Bases ==
    { <<"public.", "ecr", ".aws">>,
      <<"mirror.", "public.", "ecr", ".aws">>,
      <<"123.dkr.", "ecr", ".us-east-1.amazonaws.com">>,
      <<"docker.io">> }

NoDiscover ==
    /\ base = <<"docker.io">>
    /\ files = [f \in {COMMON_AUTH_FILES[k] : k \in 1..2} |->
                   [kind |-> "absent", auth |-> NoneStr, identitytoken |-> NoneStr]]
    /\ keychain = [kind |-> "missing", password |-> Base64Encode(<< >>)]
    /\ ecr = [kind |-> "no_data", token |-> Base64Encode(<< >>)]
    /\ apc = 0 /\ aprobes = << >> /\ ahelper = "none"
    /\ aresult = Ok(NoToken)

\* registry.rs 38-40: the call
StartDiscover(b, fs, kc, e) ==
    /\ base = b /\ files = fs /\ keychain = kc /\ ecr = e
    /\ apc = 1 /\ aprobes = << >> /\ ahelper = "none"
    /\ aresult = NotReturned

\* registry.rs 40-75: one turn of the loop over COMMON_AUTH_FILES
ProbeFile ==
    /\ apc \in 1..Len(COMMON_AUTH_FILES)
    /\ LET name == COMMON_AUTH_FILES[apc]
           file == files[name]
           next == apc + 1
       IN
       CASE file.kind = "absent" ->
               \* my_home() gave no path or path.exists() is false
               /\ apc' = next
               /\ UNCHANGED <<aprobes, aresult>>
         [] file.kind = "unreadable" ->
               \* read_to_string(...).context(FileSnafu)?
               /\ apc' = 0
               /\ aprobes' = Append(aprobes, name)
               /\ aresult' = Err("File")
         [] file.kind = "malformed" ->
               \* serde_json::from_str(...).context(ConfigDeserializeSnafu)?
               /\ apc' = 0
               /\ aprobes' = Append(aprobes, name)
               /\ aresult' = Err("ConfigDeserialize")
         [] file.kind = "no_entry" ->
               /\ apc' = next
               /\ aprobes' = Append(aprobes, name)
               /\ aresult' = aresult
         [] file.kind = "entry" ->
               /\ apc' = 0
               /\ aprobes' = Append(aprobes, name)
               /\ aresult' = IF ~file.auth.some /\ ~file.identitytoken.some
                             THEN KeychainToken(file)
                             ELSE TokenParse(file)
    /\ UNCHANGED <<base, files, keychain, ecr, ahelper>>
    /\ UNCHANGED <<wvars, xvars, cvars, fvars, ivars, qvars>>

\* registry.rs 78-116 (feature "aws"): the credential helpers of ECR
EcrHelper ==
    /\ apc = Len(COMMON_AUTH_FILES) + 1
    /\ apc' = 0
    /\ IF StartsWith(base, <<"public.", "ecr", ".aws">>)
       THEN /\ ahelper' = "public"
            /\ aresult' = CASE ecr.kind = "api_err" -> Err("Authorization")
                             [] ecr.kind = "no_data" -> Ok(NoToken)
                             [] ecr.kind = "token" -> Ok(Bearer(ecr.token))
       ELSE IF Contains(base, "ecr")
            THEN /\ ahelper' = "private"
                 /\ aresult' =
                       CASE ecr.kind = "api_err" -> Err("Authorization")
                         [] ecr.kind = "no_data" -> Ok(NoToken)
                         [] ecr.kind = "token" ->
                              LET decoded == Base64Decode(ecr.token) IN
                              IF StartsWith(decoded, <<"AWS", ":">>)
                              THEN Ok(Basic(<<"AWS">>, SubSeq(decoded, 3, Len(decoded))))
                              ELSE Panic
            ELSE /\ ahelper' = "none"
                 /\ aresult' = Ok(NoToken)
    /\ UNCHANGED <<base, files, keychain, ecr, aprobes>>
    /\ UNCHANGED <<wvars, xvars, cvars, fvars, ivars, qvars>>

(* --------------------- uri.rs: RegistryUri, Uri ------------------------ *)
\* Strings are sequences of pieces; "/", ":" and "@" are pieces of their own, so
\* that "http://" is the four pieces below.
HTTP == <<"http", ":", "/", "/">>
HTTPS == <<"https", ":", "/", "/">>

\* str::strip_prefix, for a string that starts with the prefix
StripPrefix(str, prefix) == SubSeq(str, Len(prefix) + 1, Len(str))

\* str::split_once(sep): the parts before and after the first sep, or None
SplitOnceAt(str, sep) ==
    IF Contains(str, sep)
    THEN LET i == CHOOSE k \in 1..Len(str) :
                      str[k] = sep /\ \A j \in 1..(k - 1) : str[j] # sep
         IN [some |-> TRUE, left |-> SubSeq(str, 1, i - 1),
             right |-> SubSeq(str, i + 1, Len(str))]
    ELSE [some |-> FALSE, left |-> << >>, right |-> << >>]

RegistryUriFromStr_KeepsPrefix(s) ==
    IF StartsWith(s, HTTP)
    THEN [base |-> s, is_secure |-> FALSE]
    ELSE IF StartsWith(s, HTTPS)
         THEN [base |-> s, is_secure |-> TRUE]
         ELSE [base |-> s,
               is_secure |-> ~(Contains(s, "localhost") \/ Contains(s, "127.0.0.1"))]

\* uri.rs 48-64 RegistryUri::from_str
RegistryUriFromStr(s) ==
    IF StartsWith(s, HTTP)
    THEN [base |-> StripPrefix(s, HTTP), is_secure |-> FALSE]
    ELSE IF StartsWith(s, HTTPS)
         THEN [base |-> StripPrefix(s, HTTPS), is_secure |-> TRUE]
         ELSE [base |-> s,
               is_secure |-> ~(Contains(s, "localhost") \/ Contains(s, "127.0.0.1"))]

\* uri.rs 175-184 Algorithm::from_str, "Err" being InvalidAlgorithm
AlgorithmFromStr(a) ==
    IF a = <<"sha256">> THEN "Sha256"
    ELSE IF a = <<"sha512">> THEN "Sha512"
    ELSE "Err"

\* uri.rs 186-193 Display for Algorithm
AlgorithmToString(al) == IF al = "Sha256" THEN <<"sha256">> ELSE <<"sha512">>

\* uri.rs 143-147 enum Reference, and the Err of its from_str
Tag(t) == [kind |-> "Tag", algorithm |-> "none", value |-> t]
Digest(al, v) == [kind |-> "Digest", algorithm |-> al, value |-> v]
InvalidAlgorithm == [kind |-> "Err", algorithm |-> "none", value |-> << >>]

Reference_from_str_TagOnly(s) == Tag(s)

\* uri.rs 151-161 Reference::from_str, on any string
Reference_from_str(s) ==
    IF Contains(s, ":")
    THEN LET p == SplitOnceAt(s, ":")
         IN IF AlgorithmFromStr(p.left) = "Err"
            THEN InvalidAlgorithm
            ELSE Digest(AlgorithmFromStr(p.left), p.right)
    ELSE Tag(s)

\* uri.rs 195-204 Display for Reference
Reference_to_string(r) ==
    IF r.kind = "Tag"
    THEN r.value
    ELSE AlgorithmToString(r.algorithm) \o <<":">> \o r.value

NoRegistryUri == [base |-> << >>, is_secure |-> FALSE]
UriOk(reg, repo, ref) ==
    [kind |-> "Ok", error |-> "none", registry |-> reg, repository |-> repo,
     reference |-> ref]
UriErr(e) ==
    [kind |-> "Err", error |-> e, registry |-> NoRegistryUri, repository |-> << >>,
     reference |-> Tag(<< >>)]
NoUri == [kind |-> "None", error |-> "none", registry |-> NoRegistryUri,
          repository |-> << >>, reference |-> Tag(<< >>)]
NoRegistryUrl == [scheme |-> "none", base |-> << >>]

\* uri.rs 80-108 Uri::new; auth_ok: whether Registry::new (discover_auth)
\* returns Ok for the registry
UriNew(input, auth_ok) ==
    LET io == SplitOnceAt(input, "/")
        object == io.right
        at == SplitOnceAt(object, "@")
        dg == SplitOnceAt(at.right, ":")
        tg == SplitOnceAt(object, ":")
        made(repo, ref) ==
            IF auth_ok THEN UriOk(RegistryUriFromStr(io.left), repo, ref)
            ELSE UriErr("Registry")
    IN IF ~io.some THEN UriErr("MalformedUri")
       ELSE IF Contains(object, "@")
            THEN IF ~dg.some THEN UriErr("MalformedUri")
                 ELSE IF AlgorithmFromStr(dg.left) = "Err"
                      THEN UriErr("InvalidAlgorithm")
                      ELSE made(at.left, Digest(AlgorithmFromStr(dg.left), dg.right))
            ELSE IF ~tg.some THEN UriErr("MalformedUri")
                 ELSE made(tg.left, Tag(tg.right))

\* uri.rs 126-138 Display for Uri
UriToString(u) ==
    u.registry.base \o <<"/">> \o u.repository \o
        (IF u.reference.kind = "Tag"
         THEN <<":">> \o u.reference.value
         ELSE <<"@">> \o AlgorithmToString(u.reference.algorithm) \o <<":">> \o
                  u.reference.value)

\* No command is parsing an argument.
NoCommand ==
    /\ uarg = << >>
    /\ ukind = "none"
    /\ insecure = FALSE
    /\ upc = "done"
    /\ uuri = NoUri
    /\ uurl = NoRegistryUrl

StartCommand(kind, arg, flag) ==
    /\ uarg = arg
    /\ ukind = kind
    /\ insecure = flag
    /\ upc = "parse"
    /\ uuri = NoUri
    /\ uurl = NoRegistryUrl

\* cmd/catalog.rs 22, cmd/list.rs 26: RegistryUri::from_str(self.url.as_str())?
ParseRegistry ==
    /\ upc = "parse"
    /\ ukind = "registry"
    /\ uuri' = UriOk(RegistryUriFromStr(uarg), << >>, Tag(<< >>))
    /\ upc' = "flag"
    /\ UNCHANGED <<uarg, ukind, insecure, uurl>>
    /\ UNCHANGED <<wvars, xvars, pvars, rvars, mvars, dvars, nvars, evars>>

\* cmd/copy.rs 31, cmd/pull.rs 32, ...: Uri::new(self.uri.as_str()).await?
ParseObject ==
    /\ upc = "parse"
    /\ ukind = "object"
    /\ \E auth_ok \in BOOLEAN :
          /\ uuri' = UriNew(uarg, auth_ok)
          /\ upc' = IF UriNew(uarg, auth_ok).kind = "Ok" THEN "flag" ELSE "done"
    /\ UNCHANGED <<uarg, ukind, insecure, uurl>>
    /\ UNCHANGED <<wvars, xvars, pvars, rvars, mvars, dvars, nvars, evars>>

\* What each command does with its flag. cmd/catalog.rs 23-25, cmd/list.rs
\* 27-29: if self.insecure { registry_uri.set_secure(false); }. cmd/copy.rs 32,
\* 34, cmd/push.rs 35, cmd/pull.rs 33, ...: uri.set_secure(!self.insecure);
SetSecure ==
    /\ upc = "flag"
    /\ uuri' = [uuri EXCEPT !.registry.is_secure =
                   IF ukind = "registry"
                   THEN IF insecure THEN FALSE ELSE @
                   ELSE ~insecure]
    /\ upc' = "url"
    /\ UNCHANGED <<uarg, ukind, insecure, uurl>>
    /\ UNCHANGED <<wvars, xvars, pvars, rvars, mvars, dvars, nvars, evars>>

\* registry.rs 141-143 Registry::url with uri.rs 66-77 TryInto<Url>: the scheme
\* and the base of the URL that every request of the command is joined onto.
Connect ==
    /\ upc = "url"
    /\ uurl' = [scheme |-> IF uuri.registry.is_secure THEN "https" ELSE "http",
                base |-> uuri.registry.base]
    /\ upc' = "done"
    /\ UNCHANGED <<uarg, ukind, insecure, uuri>>
    /\ UNCHANGED <<wvars, xvars, pvars, rvars, mvars, dvars, nvars, evars>>

(* ------------- uri.rs: Reference written and read back ----------------- *)
NoReference ==
    /\ rval = Tag(<< >>)
    /\ rpc = "done"
    /\ rstr = << >>
    /\ rback = Tag(<< >>)

StartReference(r) ==
    /\ rval = r
    /\ rpc = "value"
    /\ rstr = << >>
    /\ rback = Tag(<< >>)

\* r.to_string()
WriteReference ==
    /\ rpc = "value"
    /\ rstr' = Reference_to_string(rval)
    /\ rpc' = "string"
    /\ UNCHANGED <<rval, rback>>
    /\ UNCHANGED <<wvars, xvars, pvars, uvars, mvars, dvars, nvars, evars>>

\* Reference::from_str(&string)
ReadReference ==
    /\ rpc = "string"
    /\ rback' = Reference_from_str(rstr)
    /\ rpc' = "done"
    /\ UNCHANGED <<rval, rstr>>
    /\ UNCHANGED <<wvars, xvars, pvars, uvars, mvars, dvars, nvars, evars>>

(* ------------------- models.rs: MediaType, Compression ----------------- *)
\* The two prefixes and the six exact strings of models.rs 47-63, each one piece;
\* what follows a prefix is spelled out in characters.
LAYER == "application/vnd.oci.image.layer.v1.tar"
ROOTFS == "application/vnd.docker.image.rootfs.diff.tar"
ExactTypes ==
    { "ImageIndex", "Manifest", "Config",
      "DockerManifestList", "DockerManifest", "DockerContainerImage" }
ExactString(t) ==
    CASE t = "ImageIndex" -> <<"application/vnd.oci.image.index.v1+json">>
      [] t = "Manifest" -> <<"application/vnd.oci.image.manifest.v1+json">>
      [] t = "Config" -> <<"application/vnd.oci.image.config.v1+json">>
      [] t = "DockerManifestList" ->
            <<"application/vnd.docker.distribution.manifest.list.v2+json">>
      [] t = "DockerManifest" ->
            <<"application/vnd.docker.distribution.manifest.v2+json">>
      [] t = "DockerContainerImage" ->
            <<"application/vnd.docker.container.image.v1+json">>

\* models.rs 112-119 enum Compression
Compressions == {"Gzip", "Bzip2", "Lz4", "Xz", "Zstd", "None"}

\* models.rs 13-22 enum MediaType; the variants without a payload carry "None"
MediaTypeOf(t, c) == [type |-> t, compression |-> c]
UnknownVariant == [type |-> "Err", compression |-> "None"]
MediaTypes ==
    {MediaTypeOf(t, "None") : t \in ExactTypes} \cup
    {MediaTypeOf(t, c) : t \in {"Layer", "DockerImageRootfs"}, c \in Compressions}

\* str::ends_with
EndsWith(str, suffix) ==
    /\ Len(str) >= Len(suffix)
    /\ SubSeq(str, Len(str) - Len(suffix) + 1, Len(str)) = suffix

\* models.rs 122-137 Compression::new
CompressionNew(string) ==
    IF EndsWith(string, <<".", "g", "z">>)
          \/ EndsWith(string, <<".", "g", "z", "i", "p", "2">>)
    THEN "Gzip"
    ELSE IF EndsWith(string, <<".", "x", "z">>) THEN "Xz"
    ELSE IF EndsWith(string, <<".", "l", "z", "4">>) THEN "Lz4"
    ELSE IF EndsWith(string, <<".", "z", "s", "t">>) THEN "Zstd"
    ELSE IF EndsWith(string, <<".", "b", "z", "2">>)
               \/ EndsWith(string, <<".", "b", "z", "i", "p", "2">>)
    THEN "Bzip2"
    ELSE "None"

\* models.rs 139-148 Compression::to_ext
ToExt(c) ==
    CASE c = "Gzip" -> <<".", "g", "z">>
      [] c = "Bzip2" -> <<".", "b", "z", "2">>
      [] c = "Lz4" -> <<".", "l", "z", "4">>
      [] c = "Xz" -> <<".", "x", "z">>
      [] c = "Zstd" -> <<".", "z", "s", "t">>
      [] c = "None" -> << >>

\* models.rs 40-66 Serialize for MediaType
Serialize(v) ==
    CASE v.type = "Layer" -> <<LAYER>> \o ToExt(v.compression)
      [] v.type = "DockerImageRootfs" -> <<ROOTFS>> \o ToExt(v.compression)
      [] OTHER -> ExactString(v.type)

\* models.rs 68-108 Deserialize for MediaType
Deserialize(string) ==
    IF StartsWith(string, <<ROOTFS>>)
    THEN MediaTypeOf("DockerImageRootfs", CompressionNew(string))
    ELSE IF StartsWith(string, <<LAYER>>)
    THEN MediaTypeOf("Layer", CompressionNew(string))
    ELSE IF \E t \in ExactTypes : ExactString(t) = string
    THEN MediaTypeOf(CHOOSE t \in ExactTypes : ExactString(t) = string, "None")
    ELSE UnknownVariant

NoMediaType ==
    /\ mdir = "none"
    /\ mpc = "done"
    /\ mstr = << >>
    /\ mval = UnknownVariant
    /\ mstr2 = << >>
    /\ mval2 = UnknownVariant
    /\ mdec = "unset"

\* A document read from a registry holds the wire string.
StartDecode(string) ==
    /\ mdir = "decode"
    /\ mpc = "first"
    /\ mstr = string
    /\ mval = UnknownVariant
    /\ mstr2 = << >>
    /\ mval2 = UnknownVariant
    /\ mdec = "unset"

\* A document built by the program holds the value.
StartEncode(v) ==
    /\ mdir = "encode"
    /\ mpc = "first"
    /\ mstr = << >>
    /\ mval = v
    /\ mstr2 = << >>
    /\ mval2 = UnknownVariant
    /\ mdec = "unset"

\* serde_json::from_slice of a document: the string becomes a MediaType, or the
\* document is rejected.
Decode ==
    /\ \/ /\ mdir = "decode" /\ mpc = "first"
          /\ mval' = Deserialize(mstr)
          /\ mpc' = IF Deserialize(mstr) = UnknownVariant THEN "done" ELSE "second"
          /\ UNCHANGED mval2
       \/ /\ mdir = "encode" /\ mpc = "second"
          /\ mval2' = Deserialize(mstr)
          /\ mpc' = "done"
          /\ UNCHANGED mval
    /\ UNCHANGED <<mdir, mstr, mstr2, mdec>>
    /\ UNCHANGED <<wvars, xvars, pvars, uvars, rvars, dvars, nvars, evars>>

\* serde_json::to_vec of a document: the MediaType becomes a string.
Encode ==
    /\ \/ /\ mdir = "encode" /\ mpc = "first"
          /\ mstr' = Serialize(mval)
          /\ mpc' = "second"
          /\ UNCHANGED mstr2
       \/ /\ mdir = "decode" /\ mpc = "second"
          /\ mstr2' = Serialize(mval)
          /\ mpc' = "done"
          /\ UNCHANGED mstr
    /\ UNCHANGED <<mdir, mval, mval2, mdec>>
    /\ UNCHANGED <<wvars, xvars, pvars, uvars, rvars, dvars, nvars, evars>>

\* models.rs 25-37 MediaType::compression
MediaTypeCompression(v) ==
    IF v.type = "DockerImageRootfs"
    THEN IF v.compression = "None" THEN "Gzip" ELSE v.compression
    ELSE IF v.type = "Layer" THEN v.compression
    ELSE "None"

\* compression.rs 22-45 Decompress::new: the format that the reader put on the
\* stream decodes, "none" for the bare BufReader. GzipDecoder reads gzip,
\* BzDecoder bzip2, LzmaDecoder lzma, XzDecoder xz, ZstdDecoder zstd.
DecompressNew(media) ==
    IF media.type = "DockerImageRootfs"
    THEN CASE media.compression \in {"Gzip", "None"} -> "gzip"
           [] media.compression = "Bzip2" -> "bzip2"
           [] media.compression = "Lz4" -> "lzma"
           [] media.compression = "Xz" -> "xz"
           [] media.compression = "Zstd" -> "zstd"
    ELSE IF media.type = "Layer"
    THEN CASE media.compression = "Gzip" -> "gzip"
           [] media.compression = "Bzip2" -> "bzip2"
           [] media.compression = "Lz4" -> "lzma"
           [] media.compression = "Xz" -> "xz"
           [] media.compression = "Zstd" -> "zstd"
           [] media.compression = "None" -> "none"
    ELSE "none"

\* The flattener is about to open a layer whose descriptor holds the value v.
StartOpen(v) ==
    /\ mdir = "open"
    /\ mpc = "first"
    /\ mstr = << >>
    /\ mval = v
    /\ mstr2 = << >>
    /\ mval2 = UnknownVariant
    /\ mdec = "unset"

\* image.rs 130, 169: Decompress::new(layer.media_type(), layer.open(uri).await?)
OpenDecompress ==
    /\ mdir = "open" /\ mpc = "first"
    /\ mdec' = DecompressNew(mval)
    /\ mpc' = "done"
    /\ UNCHANGED <<mdir, mstr, mval, mstr2, mval2>>
    /\ UNCHANGED <<wvars, xvars, pvars, uvars, rvars, dvars, nvars, evars>>

(* ------------- cmd/copy.rs: the documents of a copy -------------------- *)
\* The body of a manifest or of an index, as bytes on the wire. form: "compact" is
\* the JSON text that serde_json::to_vec writes for the program's structs (their
\* fields only, in their order, no whitespace); "spaced" is the same document
\* written with other whitespace or field order; "annotated" is a document with a
\* field that the structs do not have (annotations, subject, ...). mt: the
\* mediaType string of the descriptors inside (the layers of a manifest, the
\* manifests of an index). entries: the digests of the manifests of an index.
Body(form, mt, entries) == [form |-> form, mt |-> mt, entries |-> entries]
NoBody == Body("none", << >>, << >>)
Forms == {"compact", "spaced", "annotated"}

\* Sha256::digest of a body, collision-free.
BodyDigest(b) == [algo |-> "sha256", of |-> b]
NoBodyDigest == [algo |-> "none", of |-> NoBody]

\* References of the uris of the run: a tag, or the digest of a body.
TagRef(t) == [kind |-> "Tag", tag |-> t, digest |-> NoBodyDigest]
DigestRef(b) == [kind |-> "Digest", tag |-> "", digest |-> BodyDigest(b)]

\* image.rs 28-35 Image, index.rs 21-28 Index, layer.rs 30-37 Layer as serde
\* reads them (registry.rs 241-259 fetch_manifest): unknown fields are dropped,
\* whitespace and field order are not kept, each mediaType string becomes a
\* MediaType, and an unknown one fails the whole document.
NoDoc == [kind |-> "None", media |-> UnknownVariant, entries |-> << >>]
InvalidDoc == [kind |-> "Err", media |-> UnknownVariant, entries |-> << >>]
FromSlice(body) ==
    IF Deserialize(body.mt) = UnknownVariant
    THEN InvalidDoc
    ELSE [kind |-> "Ok", media |-> Deserialize(body.mt), entries |-> body.entries]

\* registry.rs 273 serde_json::to_vec(manifest): the struct's fields, compact,
\* each MediaType written by its Serialize.
ToVec(doc) == Body("compact", Serialize(doc.media), doc.entries)

TargetRepository == "target/repo"

\* client.rs 240-256 put_manifest: PUT /v2/{repository}/manifests/{reference}
PutRequest(kind, entry, ref, body, ok) ==
    [kind |-> kind, entry |-> entry, repository |-> TargetRepository,
     reference |-> ref, body |-> body, ok |-> ok]

NoDocs ==
    /\ srcref = TagRef("")
    /\ tgtref = TagRef("")
    /\ sindex = NoBody
    /\ smanifests = << >>
    /\ dpc = "done"
    /\ dimg = 0
    /\ dindex = NoDoc
    /\ dimage = NoDoc
    /\ dpresent = {}
    /\ dputs = << >>
    /\ drc = "ok"

\* The source registry holds the manifests ms and an index ib whose entries are
\* their digests.
StartDocs(sr, tr, ib, ms) ==
    /\ srcref = sr
    /\ tgtref = tr
    /\ sindex = ib
    /\ smanifests = ms
    /\ dpc = "index"
    /\ dimg = 0
    /\ dindex = NoDoc
    /\ dimage = NoDoc
    /\ dpresent = {}
    /\ dputs = << >>
    /\ drc = "running"

DocsReturn(r) ==
    /\ dpc' = "done"
    /\ drc' = r

\* cmd/copy.rs 37 for manifest in index.manifests().iter(), 103 after the loop
NextEntry(doc, k) ==
    IF k < Len(doc.entries)
    THEN /\ dimg' = k + 1
         /\ dpc' = "image"
         /\ UNCHANGED drc
    ELSE /\ dimg' = k
         /\ dpc' = "push_index"
         /\ UNCHANGED drc

\* cmd/copy.rs 35 Index::fetch(&source).await? (index.rs 52-57)
DocsFetchIndex ==
    /\ dpc = "index"
    /\ \E got \in BOOLEAN :
          IF got /\ FromSlice(sindex).kind = "Ok"
          THEN /\ dindex' = FromSlice(sindex)
               /\ NextEntry(FromSlice(sindex), 0)
          ELSE /\ DocsReturn("err")
               /\ UNCHANGED <<dindex, dimg>>
    /\ UNCHANGED <<srcref, tgtref, sindex, smanifests, dimage, dpresent, dputs>>
    /\ UNCHANGED <<wvars, xvars, pvars, uvars, rvars, mvars, nvars, evars>>

\* cmd/copy.rs 38-44 Image::fetch(&manifest_uri, ..).await? (image.rs 66-77): the
\* source is asked for the manifest of the entry's digest.
DocsFetchImage ==
    /\ dpc = "image"
    /\ \E got \in BOOLEAN :
          IF got /\ FromSlice(smanifests[dimg]).kind = "Ok"
          THEN /\ dimage' = FromSlice(smanifests[dimg])
               /\ dpc' = "blobs"
               /\ UNCHANGED drc
          ELSE /\ DocsReturn("err")
               /\ UNCHANGED dimage
    /\ UNCHANGED <<srcref, tgtref, sindex, smanifests, dimg, dindex, dpresent, dputs>>
    /\ UNCHANGED <<wvars, xvars, pvars, uvars, rvars, mvars, nvars, evars>>

\* cmd/copy.rs 46-92: the config is transferred with `?`; the layer tasks are
\* joined and their results dropped, so the run goes on whether or not every
\* layer arrived.
DocsBlobs ==
    /\ dpc = "blobs"
    /\ \E config_ok \in BOOLEAN, layers_ok \in BOOLEAN :
          IF config_ok
          THEN /\ dpresent' = IF layers_ok THEN dpresent \cup {dimg} ELSE dpresent
               /\ dpc' = "push"
               /\ UNCHANGED drc
          ELSE /\ DocsReturn("err")
               /\ UNCHANGED dpresent
    /\ UNCHANGED <<srcref, tgtref, sindex, smanifests, dimg, dindex, dimage, dputs>>
    /\ UNCHANGED <<wvars, xvars, pvars, uvars, rvars, mvars, nvars, evars>>

\* cmd/copy.rs 93-100 image.push(&target_manifest_uri).await? (image.rs 324-334,
\* registry.rs 262-304): the reference is the entry's digest.
DocsPushImage ==
    /\ dpc = "push"
    /\ \E ok \in BOOLEAN :
          /\ dputs' = Append(dputs,
                         PutRequest("manifest", dimg,
                                    [kind |-> "Digest", tag |-> "",
                                     digest |-> dindex.entries[dimg]],
                                    ToVec(dimage), ok))
          /\ IF ok
             THEN NextEntry(dindex, dimg)
             ELSE DocsReturn("err") /\ UNCHANGED dimg
    /\ UNCHANGED <<srcref, tgtref, sindex, smanifests, dindex, dimage, dpresent>>
    /\ UNCHANGED <<wvars, xvars, pvars, uvars, rvars, mvars, nvars, evars>>

\* cmd/copy.rs 103 index.push(&target).await? (index.rs 130-141): the reference
\* is uri.reference() of the uri given, the target.
DocsPushIndex ==
    /\ dpc = "push_index"
    /\ \E ok \in BOOLEAN :
          /\ dputs' = Append(dputs,
                         PutRequest("index", 0, tgtref, ToVec(dindex), ok))
          /\ DocsReturn(IF ok THEN "ok" ELSE "err")
    /\ UNCHANGED <<srcref, tgtref, sindex, smanifests, dimg, dindex, dimage, dpresent>>
    /\ UNCHANGED <<wvars, xvars, pvars, uvars, rvars, mvars, nvars, evars>>

(* ---------------------- cmd/push.rs: find_index ------------------------ *)
\* The blobs of an archive are named by digests 1..MaxBlobs.
Names == 1..MaxBlobs

\* The manifests of an index, as the digests they name.
EntryLists == {<< >>} \cup [1..1 -> Names] \cup [1..2 -> Names]

\* What the archive holds under a digest: no entry of that name ("missing"),
\* bytes that are not a JSON document or whose mediaType is unknown ("invalid"),
\* a document without mediaType ("untyped"), a document whose mediaType is not
\* an index type ("manifest"), or an index with its manifests ("index").
Blob(kind, ms) == [kind |-> kind, manifests |-> ms]
Blobs ==
    {Blob(k, << >>) : k \in {"missing", "invalid", "untyped", "manifest"}} \cup
    {Blob("index", ms) : ms \in EntryLists}

Searching == [kind |-> "running", error |-> "none", index |-> << >>]
Found(ms) == [kind |-> "Ok", error |-> "none", index |-> ms]
FindErr(e) == [kind |-> "Err", error |-> e, index |-> << >>]

NoFindIndex ==
    /\ narchive = << >>
    /\ nindex = << >>
    /\ nk = 0
    /\ nchain = << >>
    /\ nresult = FindErr("none")

\* cmd/push.rs 49 find_index(&mut archive, &index) with the index of index.json
StartFindIndex(ar, ms) ==
    /\ narchive = ar
    /\ nindex = ms
    /\ nk = 1
    /\ nchain = << >>
    /\ nresult = Searching

\* The blob that afind finds for the manifest the loop is at.
AtBlob == narchive[nindex[nk]]
InLoop == nresult = Searching /\ nk <= Len(nindex)

\* cmd/push.rs 167-182: afind found no entry (BlobMissing), or its bytes are not
\* JSON or its mediaType is no MediaType (ImageInvalidIndex); 196: the loop ended.
FindFail ==
    /\ nresult = Searching
    /\ IF nk > Len(nindex)
       THEN nresult' = FindErr("ImageNotValid")
       ELSE /\ AtBlob.kind \in {"missing", "invalid"}
            /\ nresult' = IF AtBlob.kind = "missing"
                          THEN FindErr("BlobMissing")
                          ELSE FindErr("ImageInvalidIndex")
    /\ UNCHANGED <<narchive, nindex, nk, nchain>>
    /\ UNCHANGED <<wvars, xvars, pvars, uvars, rvars, mvars, dvars, evars>>

\* cmd/push.rs 180: value.get("mediaType") is None: the next manifest
FindSkip ==
    /\ InLoop
    /\ AtBlob.kind = "untyped"
    /\ nk' = nk + 1
    /\ UNCHANGED <<narchive, nindex, nchain, nresult>>
    /\ UNCHANGED <<wvars, xvars, pvars, uvars, rvars, mvars, dvars, evars>>

\* cmd/push.rs 183-187: a nested index: return find_index(archive, &next).await.
\* The calls are followed until one more index has been entered than the archive
\* has blobs.
FindRecurse ==
    /\ InLoop
    /\ AtBlob.kind = "index"
    /\ Len(nchain) <= MaxBlobs
    /\ nindex' = AtBlob.manifests
    /\ nk' = 1
    /\ nchain' = Append(nchain, nindex[nk])
    /\ UNCHANGED <<narchive, nresult>>
    /\ UNCHANGED <<wvars, xvars, pvars, uvars, rvars, mvars, dvars, evars>>

\* cmd/push.rs 188-191: not an index: return Ok(index.clone())
FindRoot ==
    /\ InLoop
    /\ AtBlob.kind = "manifest"
    /\ nresult' = Found(nindex)
    /\ UNCHANGED <<narchive, nindex, nk, nchain>>
    /\ UNCHANGED <<wvars, xvars, pvars, uvars, rvars, mvars, dvars, evars>>

(* ============== Index::to_oci and Image::to_tarball ==================== *)
\* A descriptor (struct Layer): its digest "sha256:" + hex and its media type.
Descriptor(hex, media) == [digest |-> <<"sha256", ":", hex>>, media |-> media]

\* An image manifest: the descriptors of its config and of its layers.
ImageOf(config, ls) == [config |-> config, layers |-> ls]
NoExportImage == ImageOf(Descriptor("none", UnknownVariant), << >>)
NoJson == [kind |-> "none", manifests |-> << >>, config |-> << >>, layers |-> << >>]

\* index.rs 162, 198, 206, 220: blob_dir.join(digest.strip_prefix("sha256:"))
OciBlobPath(d) == <<"blobs/sha256", "/">> \o StripPrefix(d, <<"sha256", ":">>)

\* image.rs 228-232: format!("{}.tar{}", digest.split_once(":").unwrap().1,
\* media_type.compression().to_ext())
BlobLayerName(l) ==
    SplitOnceAt(l.digest, ":").right \o <<".tar">> \o
        ToExt(MediaTypeCompression(l.media))

\* The file a blob is copied into: index.rs 206, 220; image.rs 215, 233.
ConfigFile(l) == IF eop = "to_oci" THEN OciBlobPath(l.digest) ELSE l.digest
LayerFile(l) == IF eop = "to_oci" THEN OciBlobPath(l.digest) ELSE BlobLayerName(l)

FilterManifests_All(ms, p) == ms

\* index.rs 171-176: manifests.iter().filter(|x| x.platform() == Some(platform))
FilterManifests(ms, p) ==
    LET Test(x) == x.platform = p IN SelectSeq(ms, Test)

JoinAll_CompletionOrder(ts) == [i \in 1..Len(ts) |-> ts[edone[i]].file]

\* image.rs 242-245: join_all(tasks) gives the results in the order of the
\* tasks: the names that the loop pushes to manifest.layers
JoinAll(ts) == [i \in 1..Len(ts) |-> ts[i].file]

NoExport ==
    /\ eop = "none" /\ eindex = << >> /\ eplat = NoPlatform /\ ekept = << >>
    /\ ek = 0 /\ eimage = NoExportImage /\ epc = "done" /\ etasks = << >>
    /\ edone = << >> /\ egets = << >> /\ etmp = {} /\ ejson = NoJson
    /\ eout = {} /\ erc = "ok"

\* index.rs 145-153: index.to_oci(uri, platform, output)
StartToOci(ms, p) ==
    /\ eop = "to_oci" /\ eindex = ms /\ eplat = p /\ ekept = << >>
    /\ ek = 0 /\ eimage = NoExportImage /\ epc = "start" /\ etasks = << >>
    /\ edone = << >> /\ egets = << >> /\ etmp = {} /\ ejson = NoJson
    /\ eout = {} /\ erc = "running"

\* image.rs 202-211: image.to_tarball(uri, output), the temporary directory made
StartToTarball(im) ==
    /\ eop = "to_tarball" /\ eindex = << >> /\ eplat = NoPlatform /\ ekept = << >>
    /\ ek = 0 /\ eimage = im /\ epc = "config" /\ etasks = << >>
    /\ edone = << >> /\ egets = << >> /\ etmp = {} /\ ejson = NoJson
    /\ eout = {} /\ erc = "running"

ExportReturn(r) == epc' = "done" /\ erc' = r

\* index.rs 154-183: oci-layout and blobs/sha256 are made, the manifests are
\* filtered, index.json is written
OciStart ==
    /\ eop = "to_oci" /\ epc = "start"
    /\ LET kept == IF eplat # NoPlatform THEN FilterManifests(eindex, eplat)
                   ELSE eindex
       IN IF eplat # NoPlatform /\ kept = << >>
          THEN /\ ExportReturn("IndexNoPlatform")
               /\ etmp' = {<<"oci-layout">>}
               /\ UNCHANGED <<ekept, ek, ejson>>
          ELSE /\ ekept' = kept
               /\ ejson' = [NoJson EXCEPT !.kind = "index", !.manifests = kept]
               /\ etmp' = {<<"oci-layout">>, <<"index.json">>}
               /\ ek' = 1
               /\ epc' = IF kept = << >> THEN "archive" ELSE "image"
               /\ erc' = erc
    /\ UNCHANGED <<eop, eindex, eplat, eimage, etasks, edone, egets, eout>>
    /\ UNCHANGED <<wvars, xvars, pvars, uvars, rvars, mvars, dvars, nvars>>

\* index.rs 186-199: Image::fetch of the entry's digest, the manifest written
\* as a blob
OciFetchImage ==
    /\ eop = "to_oci" /\ epc = "image"
    /\ egets' = Append(egets, [kind |-> "manifest", digest |-> ekept[ek].digest])
    /\ \/ /\ eimage' = ekept[ek].image
          /\ etmp' = etmp \cup {OciBlobPath(ekept[ek].digest)}
          /\ epc' = "config"
          /\ erc' = erc
       \/ /\ ExportReturn("FetchManifest")
          /\ UNCHANGED <<eimage, etmp>>
    /\ UNCHANGED <<eop, eindex, eplat, ekept, ek, etasks, edone, ejson, eout>>
    /\ UNCHANGED <<wvars, xvars, pvars, uvars, rvars, mvars, dvars, nvars>>

\* image.rs 212-217, index.rs 200-208: the config blob is opened, its file
\* created and the blob copied into it
ExportConfig ==
    /\ epc = "config"
    /\ egets' = Append(egets, [kind |-> "blob", digest |-> eimage.config.digest])
    /\ \/ \* open fails
          ExportReturn("LayerOpen") /\ etmp' = etmp
       \/ \* the copy fails after the file was created
          /\ ExportReturn("LayerRead")
          /\ etmp' = etmp \cup {ConfigFile(eimage.config)}
       \/ /\ etmp' = etmp \cup {ConfigFile(eimage.config)}
          /\ epc' = "spawn"
          /\ erc' = erc
    /\ UNCHANGED <<eop, eindex, eplat, ekept, ek, eimage, etasks, edone, ejson, eout>>
    /\ UNCHANGED <<wvars, xvars, pvars, uvars, rvars, mvars, dvars, nvars>>

\* image.rs 219-241, index.rs 210-226: one task per layer
ExportSpawn ==
    /\ epc = "spawn"
    /\ etasks' = [i \in 1..Len(eimage.layers) |->
                     [layer |-> eimage.layers[i], pc |-> "open", file |-> << >>]]
    /\ edone' = << >>
    /\ epc' = "join"
    /\ UNCHANGED <<eop, eindex, eplat, ekept, ek, eimage, egets, etmp, ejson, eout,
                   erc>>
    /\ UNCHANGED <<wvars, xvars, pvars, uvars, rvars, mvars, dvars, nvars>>

\* image.rs 225-240, index.rs 215-224: a spawned task runs one step: it opens
\* the layer, or creates the file and copies the layer into it
ExportLayerStep ==
    /\ epc = "join"
    /\ \E i \in 1..Len(etasks) :
          LET t == etasks[i] IN
          \/ /\ t.pc = "open"
             /\ egets' = Append(egets, [kind |-> "blob", digest |-> t.layer.digest])
             /\ \/ /\ etasks' = [etasks EXCEPT ![i].pc = "copy"]
                   /\ edone' = edone
                \/ /\ etasks' = [etasks EXCEPT ![i].pc = "err"]
                   /\ edone' = Append(edone, i)
             /\ etmp' = etmp
          \/ /\ t.pc = "copy"
             /\ \E r \in {"ok", "err"} :
                   etasks' = [etasks EXCEPT ![i].pc = r,
                                            ![i].file = LayerFile(t.layer)]
             /\ edone' = Append(edone, i)
             /\ etmp' = etmp \cup {LayerFile(t.layer)}
             /\ egets' = egets
    /\ UNCHANGED <<eop, eindex, eplat, ekept, ek, eimage, epc, ejson, eout, erc>>
    /\ UNCHANGED <<wvars, xvars, pvars, uvars, rvars, mvars, dvars, nvars>>

AllJoined == \A i \in 1..Len(etasks) : etasks[i].pc \in {"ok", "err"}
AnyExportFailed == \E i \in 1..Len(etasks) : etasks[i].pc = "err"

\* index.rs 227-231: every task has ended; the first error is returned, else
\* the loop goes to the next manifest
OciJoin ==
    /\ eop = "to_oci" /\ epc = "join"
    /\ AllJoined
    /\ IF AnyExportFailed
       THEN ExportReturn("Layer") /\ UNCHANGED <<ek, etasks, edone>>
       ELSE /\ ek' = ek + 1
            /\ epc' = IF ek + 1 > Len(ekept) THEN "archive" ELSE "image"
            /\ etasks' = << >>
            /\ edone' = << >>
            /\ erc' = erc
    /\ UNCHANGED <<eop, eindex, eplat, ekept, eimage, egets, etmp, ejson, eout>>
    /\ UNCHANGED <<wvars, xvars, pvars, uvars, rvars, mvars, dvars, nvars>>

\* image.rs 242-250: every task has ended; the first error is returned, else
\* the names are pushed in the order of the tasks and manifest.json is written
TarJoin ==
    /\ eop = "to_tarball" /\ epc = "join"
    /\ AllJoined
    /\ IF AnyExportFailed
       THEN ExportReturn("Layer") /\ UNCHANGED <<etmp, ejson>>
       ELSE /\ ejson' = [NoJson EXCEPT !.kind = "tarball",
                                       !.config = eimage.config.digest,
                                       !.layers = JoinAll(etasks)]
            /\ etmp' = etmp \cup {<<"manifest.json">>}
            /\ epc' = "archive"
            /\ erc' = erc
    /\ UNCHANGED <<eop, eindex, eplat, ekept, ek, eimage, etasks, edone, egets, eout>>
    /\ UNCHANGED <<wvars, xvars, pvars, uvars, rvars, mvars, dvars, nvars>>

\* image.rs 251-256, index.rs 233-239: the temporary directory is appended to
\* the output; an error of the archive leaves the output with none or all of it
ExportArchive ==
    /\ epc = "archive"
    /\ \/ eout' = etmp /\ ExportReturn("ok")
       \/ eout' \in {{}, etmp} /\ ExportReturn("Archive")
    /\ UNCHANGED <<eop, eindex, eplat, ekept, ek, eimage, etasks, edone, egets, etmp,
                   ejson>>
    /\ UNCHANGED <<wvars, xvars, pvars, uvars, rvars, mvars, dvars, nvars>>

\* None of the parsers and encoders modelled on their own is running.
NoOthers ==
    NoCommand /\ NoReference /\ NoMediaType /\ NoDocs /\ NoFindIndex /\ NoExport

InitWriter ==
    /\ \E s \in 0..MaxSize, u \in BOOLEAN : FreshWriter(s, u)
    /\ NoRun
    /\ NoCopy
    /\ NoFilesystem
    /\ NoFetchImage
    /\ NoDiscover
    /\ NoOthers

NextWriter == WriteCall \/ Repoll \/ Respond

SpecWriter == InitWriter /\ [][NextWriter]_vars

InitXfer ==
    /\ FreshWriter(0, TRUE)
    /\ \E o \in {"copy", "push", "create_config"}, held \in SUBSET Digests :
          StartRun(o, held)
    /\ sdamaged \in SUBSET SourceBlobs
    /\ NoCopy
    /\ NoFilesystem
    /\ NoFetchImage
    /\ NoDiscover
    /\ NoOthers

NextXfer ==
    \/ FetchIndex \/ FetchImage \/ ConfigStep \/ AfterConfig
    \/ Spawn \/ SpawnFail \/ LayerStep \/ Join
    \/ PutManifest \/ PutIndex

SpecXfer == InitXfer /\ [][NextXfer]_vars

\* The readers tried for a copy of n bytes: exactly n bytes, more, or too few.
ReaderSizes(n) == {a \in {n \div 2, n - 1, n, n + 1} : a >= 0}

InitCopy ==
    /\ FreshWriter(0, TRUE)
    /\ NoRun
    /\ \E n \in 0..MaxCopySize : \E a \in ReaderSizes(n) : StartCopy(n, a)
    /\ NoFilesystem
    /\ NoFetchImage
    /\ NoDiscover
    /\ NoOthers

NextCopy == CopyChunk \/ CopyReturn

SpecCopy == InitCopy /\ [][NextCopy]_vars

\* Layer::create hands out a Writer of the blob's size (layer.rs 98-117) and the
\* caller copies the blob into it from a reader that holds a bytes.
InitCopyInto ==
    /\ \E n \in 0..MaxBlobSize * MiB :
          /\ \E u \in BOOLEAN : FreshWriter(n, u)
          /\ \E a \in ReaderSizes(n) : StartCopy(n, a)
    /\ NoRun
    /\ NoFilesystem
    /\ NoFetchImage
    /\ NoDiscover
    /\ NoOthers

NextCopyInto == CopyRead \/ CopyRepoll \/ Respond \/ CopyWritten \/ CopyDone

SpecCopyInto == InitCopyInto /\ [][NextCopyInto]_vars

InitFilesystem ==
    /\ FreshWriter(0, TRUE)
    /\ NoRun
    /\ NoCopy
    /\ \E ls \in LayerLens : \E f \in [1..SumSeq(ls) -> Entries] :
          StartFilesystem(CutLayers(f, ls))
    /\ NoFetchImage
    /\ NoDiscover
    /\ NoOthers

NextFilesystem == OpenLayer \/ ReadEntry \/ EndLayer \/ Finish

SpecFilesystem == InitFilesystem /\ [][NextFilesystem]_vars

InitFetchImage ==
    /\ FreshWriter(0, TRUE)
    /\ NoRun
    /\ NoCopy
    /\ NoFilesystem
    /\ \E n \in 0..MaxManifests :
          \E ps \in [1..n -> Platforms \cup {NoPlatform}] :
             \E ds \in [1..n -> DigestTexts] :
                \E p \in Platforms \cup {NoPlatform}, host \in HostPlatforms :
                   StartFetchImage(
                      [i \in 1..n |->
                          [digest |-> [text |-> ds[i], n |-> i], platform |-> ps[i]]],
                      p, host)
    /\ NoDiscover
    /\ NoOthers

NextFetchImage == SelectImage \/ ImageFetch

SpecFetchImage == InitFetchImage /\ [][NextFetchImage]_vars

InitDiscover ==
    /\ FreshWriter(0, TRUE)
    /\ NoRun
    /\ NoCopy
    /\ NoFilesystem
    /\ NoFetchImage
    /\ \E b \in Bases, kc \in KeychainStates, e \in EcrStates :
          \E f1 \in FileStates("finch"), f2 \in FileStates("docker") :
             StartDiscover(b,
                [f \in {COMMON_AUTH_FILES[k] : k \in 1..2} |->
                    IF f = ".finch/config.json" THEN f1 ELSE f2],
                kc, e)
    /\ NoOthers

NextDiscover == ProbeFile \/ EcrHelper

SpecDiscover == InitDiscover /\ [][NextDiscover]_vars

\* The strings of 0..n pieces taken from the set ps.
Strings(ps, n) == UNION {[1..k -> ps] : k \in 0..n}

\* Registry arguments: an optional scheme, a host, an optional port.
Schemes == {<< >>, HTTP, HTTPS}
Hosts == { <<"example.com">>, <<"localhost">>, <<"127.0.0.1">>,
           <<"my", "localhost", ".net">> }
Ports == {<< >>, <<":", "5000">>}
RegistryArgs == {sc \o h \o pt : sc \in Schemes, h \in Hosts, pt \in Ports}

\* Repository paths of 1..MaxPath names.
RECURSIVE Repo(_)
Repo(n) == IF n = 1 THEN <<"repo">> ELSE <<"org", "/">> \o Repo(n - 1)
Repos == {Repo(n) : n \in 1..MaxPath}

\* What follows the repository: a tag, a digest, or neither of them as it should be.
RefTexts == { << >>, <<":", "v1">>, <<":", "v1", ":", "x">>,
              <<"@", "sha256", ":", "abc">>, <<"@", "md5", ":", "abc">>,
              <<"@", "sha256">> }
ObjectArgs ==
    RegistryArgs \cup
    {rg \o <<"/">> \o rp \o rf : rg \in RegistryArgs, rp \in Repos, rf \in RefTexts}

InitUri ==
    /\ FreshWriter(0, TRUE)
    /\ NoRun
    /\ NoCopy
    /\ NoFilesystem
    /\ NoFetchImage
    /\ NoDiscover
    /\ \E flag \in BOOLEAN :
          \/ \E a \in RegistryArgs : StartCommand("registry", a, flag)
          \/ \E a \in ObjectArgs : StartCommand("object", a, flag)
    /\ NoReference
    /\ NoMediaType
    /\ NoDocs
    /\ NoFindIndex
    /\ NoExport

NextUri == ParseRegistry \/ ParseObject \/ SetSecure \/ Connect

SpecUri == InitUri /\ [][NextUri]_vars

\* The pieces of the strings held by Reference values.
RefPieces == {"sha256", "sha512", "md5", ":", "v1", "abc"}

\* Every Reference value with a string of at most MaxRefLen pieces.
References ==
    {Tag(t) : t \in Strings(RefPieces, MaxRefLen)} \cup
    {Digest(al, v) : al \in {"Sha256", "Sha512"}, v \in Strings(RefPieces, MaxRefLen)}

InitReference ==
    /\ FreshWriter(0, TRUE)
    /\ NoRun
    /\ NoCopy
    /\ NoFilesystem
    /\ NoFetchImage
    /\ NoDiscover
    /\ NoCommand
    /\ \E r \in References : StartReference(r)
    /\ NoMediaType
    /\ NoDocs
    /\ NoFindIndex
    /\ NoExport

NextReference == WriteReference \/ ReadReference

SpecReference == InitReference /\ [][NextReference]_vars

\* What follows the prefix of a layer type on the wire, in characters: the
\* extensions of to_ext, the other spellings Compression::new knows, the "+"
\* forms of the OCI layer types, and endings that name no compression.
Extensions ==
    { << >>,
      <<".", "g", "z">>, <<".", "g", "z", "i", "p", "2">>, <<".", "x", "z">>,
      <<".", "l", "z", "4">>, <<".", "z", "s", "t">>, <<".", "b", "z", "2">>,
      <<".", "b", "z", "i", "p", "2">>,
      <<"+", "g", "z", "i", "p">>, <<"+", "z", "s", "t", "d">>,
      <<".", "g", "z", "i", "p">>, <<".", "z", "s", "t", "d">>,
      <<".", "t", "x", "t">> }

WireStrings ==
    {ExactString(t) : t \in ExactTypes} \cup
    {<<px>> \o e : px \in {LAYER, ROOTFS}, e \in Extensions} \cup
    { <<"text/plain">> }

InitMediaType ==
    /\ FreshWriter(0, TRUE)
    /\ NoRun
    /\ NoCopy
    /\ NoFilesystem
    /\ NoFetchImage
    /\ NoDiscover
    /\ NoCommand
    /\ NoReference
    /\ \/ \E string \in WireStrings : StartDecode(string)
       \/ \E v \in MediaTypes : StartEncode(v)
       \/ \E v \in MediaTypes : StartOpen(v)
    /\ NoDocs
    /\ NoFindIndex
    /\ NoExport

NextMediaType == Decode \/ Encode \/ OpenDecompress

SpecMediaType == InitMediaType /\ [][NextMediaType]_vars

\* The mediaType strings of the layers of the source's manifests: the OCI gzip
\* layer, the same layer as this program writes it, and a type it does not know.
LayerTypes ==
    { <<LAYER, "+", "g", "z", "i", "p">>, <<LAYER, ".", "g", "z">>,
      <<"application/vnd.example.layer">> }

\* The manifests a source registry may hold.
ManifestBodies == {Body(f, mt, << >>) : f \in Forms, mt \in LayerTypes}

\* The index over the manifests ms, in form f.
IndexBody(f, ms) ==
    Body(f, ExactString("Manifest"), [i \in 1..Len(ms) |-> BodyDigest(ms[i])])

\* The references of the source and the target uri: the same tag, two tags, the
\* index's digest for both, or the digest copied to a tag.
RefPairs(ib) ==
    { <<TagRef("v1"), TagRef("v1")>>, <<TagRef("v1"), TagRef("v2")>>,
      <<DigestRef(ib), DigestRef(ib)>>, <<DigestRef(ib), TagRef("v2")>> }

InitDocs ==
    /\ FreshWriter(0, TRUE)
    /\ NoRun
    /\ NoCopy
    /\ NoFilesystem
    /\ NoFetchImage
    /\ NoDiscover
    /\ NoCommand
    /\ NoReference
    /\ NoMediaType
    /\ \E n \in 0..MaxDocs : \E ms \in [1..n -> ManifestBodies] : \E f \in Forms :
          \E rp \in RefPairs(IndexBody(f, ms)) :
             StartDocs(rp[1], rp[2], IndexBody(f, ms), ms)
    /\ NoFindIndex
    /\ NoExport

NextDocs ==
    DocsFetchIndex \/ DocsFetchImage \/ DocsBlobs \/ DocsPushImage \/ DocsPushIndex

SpecDocs == InitDocs /\ [][NextDocs]_vars

InitFindIndex ==
    /\ FreshWriter(0, TRUE)
    /\ NoRun
    /\ NoCopy
    /\ NoFilesystem
    /\ NoFetchImage
    /\ NoDiscover
    /\ NoCommand
    /\ NoReference
    /\ NoMediaType
    /\ NoDocs
    /\ \E ar \in [Names -> Blobs] : \E ms \in EntryLists : StartFindIndex(ar, ms)
    /\ NoExport

NextFindIndex == FindFail \/ FindSkip \/ FindRecurse \/ FindRoot

SpecFindIndex == InitFindIndex /\ [][NextFindIndex]_vars

\* The layers and configs of the images in the source registry.
GzLayer == Descriptor("a", MediaTypeOf("Layer", "Gzip"))
RawLayer == Descriptor("b", MediaTypeOf("DockerImageRootfs", "None"))
ConfigOf(hex) == Descriptor(hex, MediaTypeOf("Config", "None"))

\* The entries an index may hold: two of linux/amd64, one of linux/arm64 and one
\* without platform; blobs c2 and b belong to no linux/amd64 image.
IndexEntries ==
    LET amd64 == [os |-> "linux", architecture |-> "amd64"]
        arm64 == [os |-> "linux", architecture |-> "arm64"]
        entry(hex, p, im) ==
            [digest |-> <<"sha256", ":", hex>>, platform |-> p, image |-> im]
    IN { entry("m1", amd64, ImageOf(ConfigOf("c1"), <<GzLayer>>)),
         entry("m2", arm64, ImageOf(ConfigOf("c2"), <<GzLayer, RawLayer>>)),
         entry("m3", amd64, ImageOf(ConfigOf("c3"), <<GzLayer, GzLayer>>)),
         entry("m4", NoPlatform, ImageOf(ConfigOf("c2"), <<RawLayer>>)) }

InitToOci ==
    /\ FreshWriter(0, TRUE)
    /\ NoRun
    /\ NoCopy
    /\ NoFilesystem
    /\ NoFetchImage
    /\ NoDiscover
    /\ NoCommand
    /\ NoReference
    /\ NoMediaType
    /\ NoDocs
    /\ NoFindIndex
    /\ \E n \in 0..MaxManifests :
          \E ms \in [1..n -> IndexEntries] :
             \E p \in Platforms \cup {NoPlatform} : StartToOci(ms, p)

NextToOci ==
    \/ OciStart \/ OciFetchImage \/ ExportConfig \/ ExportSpawn
    \/ ExportLayerStep \/ OciJoin \/ ExportArchive

SpecToOci == InitToOci /\ [][NextToOci]_vars

InitToTarball ==
    /\ FreshWriter(0, TRUE)
    /\ NoRun
    /\ NoCopy
    /\ NoFilesystem
    /\ NoFetchImage
    /\ NoDiscover
    /\ NoCommand
    /\ NoReference
    /\ NoMediaType
    /\ NoDocs
    /\ NoFindIndex
    /\ \E n \in 0..(MaxLayers + 1) :
          \E ls \in [1..n -> {GzLayer, RawLayer}] :
             StartToTarball(ImageOf(ConfigOf("c1"), ls))

NextToTarball ==
    ExportConfig \/ ExportSpawn \/ ExportLayerStep \/ TarJoin \/ ExportArchive

SpecToTarball == InitToTarball /\ [][NextToTarball]_vars

(* ------------------ properties of the Writer (SpecWriter) -------------- *)
AllOk == \A i \in 1..Len(results) : results[i].ok
Idle == cur = NoBuf
IsChunk(r) == r.kind \in {"upload_part", "finish_blob_upload"}
IsFinal(r) == r.kind \in {"post_blob", "finish_blob_upload"}
Succeeded(r) == r.resp \in {"ok", "ok_noloc"}
\* The length of the first write call, open or completed.
FirstLen == IF Len(results) >= 1 THEN results[1].len ELSE Len(cur)
FirstWriteBegun == Len(results) >= 1 \/ cur # NoBuf
\* Every request so far was made by the first write call.
OnlyFirstWrite == Len(results) = 0 \/ (Len(results) = 1 /\ Idle)

\* C1: for a fresh Writer of declared size S the first write of a buffer b issues a
\* single monolithic POST iff len(b) = S; for every other length it first issues a
\* start-upload POST and then sends b by PATCH or by the final PUT; and once a
\* start-upload has returned a success status no monolithic POST is issued.
C1_MonolithicIffWholeBlob ==
    /\ (url_ok /\ FirstWriteBegun) =>
          /\ Len(reqs) >= 1
          /\ reqs[1].kind = "post_blob" <=> FirstLen = size
          /\ FirstLen # size => reqs[1].kind = "start_upload"
    /\ (url_ok /\ FirstWriteBegun /\ OnlyFirstWrite) =>
          IF FirstLen = size
          THEN Len(reqs) = 1
          ELSE /\ \A i \in 2..Len(reqs) :
                    \/ reqs[i].kind = "start_upload"
                    \/ IsChunk(reqs[i]) /\ Len(reqs[i].body) = FirstLen
               /\ (Idle /\ results[1].ok) => IsChunk(reqs[Len(reqs)])
    /\ \A i, j \in 1..Len(reqs) :
          (i < j /\ reqs[i].kind = "start_upload" /\ Succeeded(reqs[i]))
              => reqs[j].kind # "post_blob"

\* The same with the last part read as "once a start-upload has returned a success
\* status that carries a Location".
C1_WithLocation ==
    /\ (url_ok /\ FirstWriteBegun) =>
          /\ Len(reqs) >= 1
          /\ reqs[1].kind = "post_blob" <=> FirstLen = size
          /\ FirstLen # size => reqs[1].kind = "start_upload"
    /\ (url_ok /\ FirstWriteBegun /\ OnlyFirstWrite) =>
          IF FirstLen = size
          THEN Len(reqs) = 1
          ELSE /\ \A i \in 2..Len(reqs) :
                    \/ reqs[i].kind = "start_upload"
                    \/ IsChunk(reqs[i]) /\ Len(reqs[i].body) = FirstLen
               /\ (Idle /\ results[1].ok) => IsChunk(reqs[Len(reqs)])
    /\ \A i, j \in 1..Len(reqs) :
          (i < j /\ reqs[i].kind = "start_upload" /\ reqs[i].resp = "ok")
              => reqs[j].kind # "post_blob"

\* C2: k >= 2 successful writes whose lengths sum to the declared size S issue, in
\* order, exactly one start-upload POST, k-1 PATCHes and one final PUT with the
\* digest; the first range starts at 0, each later range starts where the previous
\* one ended, a PATCH range is index-(index+len) and the PUT range is index-S.
C2_StartPatchesPut ==
    (Idle /\ AllOk /\ Len(results) >= 2 /\ Len(written) = size) =>
        LET k == Len(results) IN
        /\ Len(reqs) = k + 1
        /\ reqs[1].kind = "start_upload"
        /\ \A i \in 2..k :
              /\ reqs[i].kind = "upload_part"
              /\ reqs[i].start = (IF i = 2 THEN 0 ELSE reqs[i - 1].end)
              /\ reqs[i].end = reqs[i].start + results[i - 1].len
        /\ reqs[k + 1].kind = "finish_blob_upload"
        /\ reqs[k + 1].digest # NoDigest
        /\ reqs[k + 1].start = reqs[k].end
        /\ reqs[k + 1].end = size

\* C7: within one Writer at most one HTTP request is in flight: every request but
\* the last has been answered when the next is issued, and the chunks of the blob
\* go out one after the other, each starting at the byte offset where the chunk
\* before it ended.
C7_OneRequestInFlight ==
    /\ inflight <= 1
    /\ \A i \in 1..Len(reqs) : i < Len(reqs) => reqs[i].resp # "pending"
    /\ \A i, j \in 1..Len(reqs) :
          (/\ i < j
           /\ IsChunk(reqs[i]) /\ IsChunk(reqs[j])
           /\ \A m \in (i + 1)..(j - 1) : ~IsChunk(reqs[m]))
              => reqs[j].start = reqs[i].start + Len(reqs[i].body)
    /\ \A j \in 1..Len(reqs) :
          (IsChunk(reqs[j]) /\ \A m \in 1..(j - 1) : ~IsChunk(reqs[m]))
              => reqs[j].start = 0

\* Two chunks have been sent and answered, the second at a non-zero offset.
C7_Witness ==
    /\ Len(reqs) >= 3
    /\ reqs[2].kind = "upload_part" /\ reqs[2].resp = "ok"
    /\ reqs[3].kind = "finish_blob_upload" /\ reqs[3].start > 0
    /\ reqs[3].resp = "ok"
    /\ inflight = 0

\* C8: after a blob was pushed through a Writer with every write successful and the
\* lengths summing to the declared size, the digest of Writer.layer() is the sha256
\* of the concatenation of the written buffers in write order, and it is the digest
\* sent in the ?digest= query of the finalizing POST or PUT.
C8_DigestOfWrittenBytes ==
    (Idle /\ AllOk /\ Len(results) >= 1 /\ Len(written) = size) =>
        /\ WriterLayer.digest = Sha256Digest(written)
        /\ \E i \in 1..Len(reqs) : IsFinal(reqs[i]) /\ reqs[i].resp = "ok"
        /\ \A i \in 1..Len(reqs) :
              IsFinal(reqs[i]) => reqs[i].digest = WriterLayer.digest

\* A chunked upload of two different non-empty buffers has completed.
C8_Witness ==
    /\ Idle /\ AllOk /\ Len(results) = 2 /\ Len(written) = size
    /\ results[1].len >= 1 /\ results[2].len >= 1
    /\ reqs[Len(reqs)].kind = "finish_blob_upload"
    /\ reqs[Len(reqs)].resp = "ok"

\* C9: between write calls the size reported by Writer.layer() is the total length
\* of the buffers whose write returned success, and a write that ended in an error
\* added nothing to that size or to the running digest.  (Stated for a writer whose
\* registry URL is valid, so that every write reaches the registry.)
C9_SizeIsBytesWritten ==
    (url_ok /\ Idle) =>
        /\ WriterLayer.size = Len(written)
        /\ WriterLayer.digest = Sha256Digest(written)

\* The write call that built request i has returned.
WriteEnded(i) == Len(results) >= reqs[i].write

\* C11: when the start-upload POST returns a success status without a Location
\* header, the write that is pending fails (StartBlobNoLocation) and the writer
\* issues no further request for that write.
C11_NoLocationIsFatal ==
    \A i \in 1..Len(reqs) :
        (reqs[i].kind = "start_upload" /\ reqs[i].resp = "ok_noloc") =>
            /\ WriteEnded(i) => ~results[reqs[i].write].ok
            /\ \A j \in (i + 1)..Len(reqs) : reqs[j].write # reqs[i].write

\* C12: once the monolithic POST or the final PUT of a chunked upload has succeeded
\* the Writer is Done: every later write returns an error and no HTTP request is
\* issued after the one that completed the upload.
C12_DoneRejectsWrites ==
    \A i \in 1..Len(reqs) :
        (IsFinal(reqs[i]) /\ reqs[i].resp = "ok") =>
            /\ Len(reqs) = i
            /\ \A w \in (reqs[i].write + 1)..Len(results) : ~results[w].ok

\* C13: when a start-upload, PATCH, PUT or monolithic POST returns a non-success
\* status, the write call that built the request returns an error and never
\* reports its buffer as written; the error carries the text of the response body
\* whenever that body could be read.
C13_StatusFailIsWriteError ==
    \A i \in 1..Len(reqs) :
        (reqs[i].resp = "status_fail" /\ WriteEnded(i)) =>
            LET r == results[reqs[i].write] IN
            /\ ~r.ok
            /\ reqs[i].text # "none"
            /\ reqs[i].text = "body" <=> r.err = "body"
            /\ \A j \in (i + 1)..Len(reqs) : reqs[j].write # reqs[i].write

\* A PATCH went through and a later final PUT was answered with a non-success
\* status whose body was read: the write that built the PUT has failed.
C13_Witness ==
    /\ Idle
    /\ \E i \in 1..Len(reqs) :
          /\ reqs[i].kind = "finish_blob_upload"
          /\ reqs[i].resp = "status_fail" /\ reqs[i].text = "body"
          /\ ~results[reqs[i].write].ok
    /\ \E i \in 1..Len(reqs) :
          reqs[i].kind = "upload_part" /\ reqs[i].resp = "ok"

(* ------------- properties of copy and archive push (SpecXfer) ---------- *)
Transfers ==
    (IF cfg = NoTask THEN {} ELSE {cfg}) \cup {tasks[i] : i \in 1..Len(tasks)}

\* C3: in copy the PUT of an image manifest is issued only when every blob the
\* manifest references is present at the target, and after a layer transfer of the
\* image has failed no manifest PUT for that image is issued.
C3_CopyManifestAfterBlobs ==
    op = "copy" =>
        \A i \in 1..Len(mput) : mput[i].absent = {} /\ ~mput[i].failed

\* C4: in the archive push the PUT of an image manifest is issued only after the
\* config upload and every layer task of the image have finished successfully; once
\* one of them has failed neither that manifest nor the index is PUT, and the
\* operation returns the error.
C4_PushManifestAfterTasks ==
    op = "push" =>
        /\ \A i \in 1..Len(mput) : ~mput[i].failed /\ ~mput[i].unfinished
        /\ (cfg.pc = "err" \/ AnyTaskFailed) =>
              /\ \A i \in 1..Len(mput) : mput[i].img # img
              /\ iput = "none"
              /\ rc # "ok"
              /\ pc = "done" => rc = "err"

\* The first image was pushed after both its layer tasks, the second image's layer
\* task failed and the push returned the error.
C4_Witness ==
    /\ op = "push" /\ Len(mput) = 1 /\ img = 2
    /\ mput[1].ok
    /\ AnyTaskFailed /\ pc = "done" /\ rc = "err"

\* C5: in copy and in archive push the index is PUT only after the manifest PUT of
\* every entry of the index has returned success; after a failed manifest PUT the
\* index is never PUT.
C5_IndexAfterManifests ==
    op \in {"copy", "push"} =>
        /\ iput # "none" =>
              /\ Len(mput) = nimg
              /\ \A i \in 1..Len(mput) : mput[i].ok /\ mput[i].img = i
        /\ (\E i \in 1..Len(mput) : ~mput[i].ok) => (iput = "none" /\ rc # "ok")

\* The index of two images has been PUT.
C5_Witness == op \in {"copy", "push"} /\ nimg = 2 /\ iput = "ok" /\ rc = "ok"

\* C6: when a layer-transfer task of copy has failed, copy does not report success.
C6_CopyReturnsLayerError ==
    (op = "copy" /\ AnyTaskFailed) => rc # "ok"

\* C10: Layer::create with digest Some(d) issues a HEAD blob before anything else
\* and, when the HEAD succeeds, returns no writer: no upload request is made and
\* the source blob is not read; with digest None it issues no HEAD and returns a
\* writer.
C10_DedupSkipsUpload ==
    \A t \in Transfers :
        /\ t.dopt # NoDigestArg =>
              ((t.pc \in {"open", "copy"} \/ t.read \/ t.upl # "none")
                  => t.head = "miss")
        /\ t.head = "hit" => (t.pc = "ok" /\ t.upl = "none" /\ ~t.read)
        /\ t.dopt = NoDigestArg =>
              /\ t.head = "none"
              /\ t.pc # "create" => (t.pc = "copy" \/ t.upl # "none")

\* In one copy one layer was found at the target and skipped, another uploaded.
C10_Witness ==
    /\ op = "copy"
    /\ \E i, j \in 1..Len(tasks) :
          /\ tasks[i].head = "hit" /\ tasks[i].pc = "ok"
          /\ tasks[j].head = "miss" /\ tasks[j].upl = "ok"

(* ------------------- properties of Layer::copy (SpecCopy) -------------- *)
\* C14: Layer::copy(r, w, n) issues writes of lengths min(c, remaining) with
\* c = clamp(n / 40, 5 MiB, 128 MiB): a copy that returned Ok wrote lengths that
\* sum to n, every write but the last of a finished copy is c bytes long, never
\* more than n bytes are taken from r, and when r ends before n bytes the copy
\* fails with the read error.
C14_CopyChunksExactly ==
    LET c == IF csize \div 40 < 5 * MiB THEN 5 * MiB
             ELSE IF csize \div 40 > 128 * MiB THEN 128 * MiB
             ELSE csize \div 40
    IN
    /\ \A i \in 1..Len(cwrites) :
          /\ cwrites[i] = Min(c, csize - (i - 1) * c)
          /\ cwrites[i] >= 1
          /\ i < Len(cwrites) => cwrites[i] = c
    /\ cread <= csize
    /\ cread <= cavail
    /\ crc \in {"running", "write_err"} => cread = SumSeq(cwrites)
    /\ crc = "ok" => (SumSeq(cwrites) = csize /\ cread = csize)
    /\ (cavail < csize /\ crc \notin {"running", "write_err"}) => crc = "read_err"
    /\ crc = "read_err" => cavail < csize

\* A copy larger than 40 * 128 MiB has finished: the chunk is the upper clamp, the
\* last write is shorter than the others, and the reader held more than n bytes.
C14_Witness ==
    /\ crc = "ok"
    /\ csize > 40 * 128 * MiB
    /\ Len(cwrites) > 40
    /\ cwrites[1] = 128 * MiB
    /\ cwrites[Len(cwrites)] < cwrites[1]
    /\ cavail > csize

(* ------------- properties of Image::filesystem (SpecFilesystem) -------- *)
Emitted == {archive[k] : k \in 1..Len(archive)}
IsWhiteoutPath(p) == Contains(p, WHITEOUT)
\* The whiteout entry .wh.X of the path X.
WhiteoutOf(p) == <<WHITEOUT>> \o p
\* The positions at which layer l has an entry of path p.
Occurs(l, p) == {i \in 1..Len(layers[l]) : layers[l][i].path = p}
LayersWith(p) == {l \in 1..Len(layers) : Occurs(l, p) # {}}
Top(ls) == CHOOSE l \in ls : \A m \in ls : m <= l
First(ps) == CHOOSE i \in ps : \A j \in ps : i <= j

\* C15: when a higher layer contains the whiteout entry .wh.X of a path X that a
\* lower layer contains, the flattened output contains neither the X of the lower
\* layer nor the whiteout entry.
C15_WhiteoutHidesLower ==
    \A hi \in 1..Len(layers) : \A lo \in 1..(hi - 1) :
        \A j \in 1..Len(layers[lo]) :
            LET x == layers[lo][j].path IN
            Occurs(hi, WhiteoutOf(x)) # {} =>
                \A e \in Emitted :
                    /\ ~(e.layer = lo /\ e.path = x)
                    /\ e.path # WhiteoutOf(x)

C17_NoWhiteoutEmitted ==
    /\ \A e \in Emitted : ~IsWhiteoutPath(e.path)
    /\ \A p \in filemap : ~IsWhiteoutPath(p)
    /\ filemap = {e.path : e \in Emitted}

\* A flatten has finished whose layers held a whiteout, a file with .wh. inside its
\* name and an entry that was emitted.
C17_Witness ==
    /\ frc = "ok"
    /\ archive # << >>
    /\ \E l \in 1..Len(layers) : Occurs(l, <<WHITEOUT, "b.txt">>) # {}
    /\ \E l \in 1..Len(layers) : Occurs(l, <<"x", WHITEOUT, "y">>) # {}

\* The path p is that of a regular file wherever it occurs, and it occurs.
RegularFilePath(p) ==
    /\ ~IsWhiteoutPath(p)
    /\ LayersWith(p) # {}
    /\ \A l \in LayersWith(p) : \A i \in Occurs(l, p) : layers[l][i].kind = "file"

\* C18: Image::filesystem processes the layers from last to first, and of a
\* regular-file path that occurs in several layers the finished output holds
\* exactly one entry, that of the top-most layer in which it occurs (first-wins).
C18_TopMostLayerWins ==
    /\ \A k1, k2 \in 1..Len(archive) :
          k1 < k2 => archive[k1].layer >= archive[k2].layer
    /\ frc = "ok" =>
          \A l \in 1..Len(layers) : \A i \in 1..Len(layers[l]) :
              LET p == layers[l][i].path IN
              RegularFilePath(p) =>
                  {e \in Emitted : e.path = p} =
                      {[path |-> p, kind |-> "file", layer |-> Top(LayersWith(p)),
                        pos |-> First(Occurs(Top(LayersWith(p)), p))]}

\* A file of both layers has come out of the upper one, after another entry of the
\* upper layer and before an entry of the lower layer.
C18_Witness ==
    /\ frc = "ok"
    /\ Len(layers) = 2
    /\ Len(archive) = 3
    /\ archive[2].kind = "file" /\ archive[2].layer = 2
    /\ Occurs(1, archive[2].path) # {}
    /\ RegularFilePath(archive[2].path)
    /\ archive[3].layer = 1

(* ------------ properties of Index::fetch_image (SpecFetchImage) ------- *)
Matching(p) == {i \in 1..Len(manifests) : manifests[i].platform = p}
Lowest(is) == CHOOSE i \in is : \A j \in is : i <= j
Returned == ipc = "done"

\* What fetch_image is to fetch and to return: entry i with the platform hint h.
Fetches(i, h) ==
    /\ \A k \in 1..Len(igets) : igets[k] = manifests[i].digest
    /\ Len(igets) <= 1
    /\ iresult.kind = "Some" =>
          (iresult.digest = manifests[i].digest /\ iresult.platform = h
              /\ igets = <<manifests[i].digest>>)
    /\ iresult.kind # "None"
    /\ (Returned /\ iresult.kind = "Err") => iresult.error # "IndexNoPlatform"

\* C19: with platform Some(x) fetch_image fetches, by digest, the first entry in
\* index order whose platform equals x, and fails with IndexNoPlatform without a
\* manifest GET when no entry matches; with platform None it takes the first entry
\* that matches the host's default platform, else the first entry of the index,
\* else returns None without a request.  The hint of the returned image is x, the
\* host platform, or the first entry's platform respectively.
C19_FetchImageSelection ==
    IF platform # NoPlatform
    THEN IF Matching(platform) = {}
         THEN /\ igets = << >>
              /\ Returned => iresult = [kind |-> "Err", error |-> "IndexNoPlatform"]
         ELSE Fetches(Lowest(Matching(platform)), platform)
    ELSE IF Matching(current) # {}
         THEN Fetches(Lowest(Matching(current)), current)
         ELSE IF manifests # << >>
              THEN Fetches(1, manifests[1].platform)
              ELSE /\ igets = << >>
                   /\ Returned => iresult = [kind |-> "None"]

\* The second of three entries was fetched: the first has another platform and the
\* third has the platform asked for as well.
C19_Witness ==
    /\ Returned
    /\ platform # NoPlatform
    /\ platform # current
    /\ Matching(platform) = {2, 3}
    /\ iresult.kind = "Some"
    /\ iresult.digest = manifests[2].digest
    /\ iresult.platform = platform

(* -------------- properties of discover_auth (SpecDiscover) ------------- *)
Finch == ".finch/config.json"
Docker == ".docker/config.json"
Discovered == apc = 0
HoldsEntry(f) == files[f].kind = "entry"
\* The file can be probed: it is absent, or it is read and parsed.
Probed(f) == files[f].kind \in {"absent", "no_entry", "entry"}
\* The file whose entry decides: the first of finch, docker that holds one.
Deciding == IF HoldsEntry(Finch) THEN Finch ELSE Docker
IsPublicEcr == Len(base) >= 3 /\ <<base[1], base[2], base[3]>> = <<"public.", "ecr", ".aws">>
IsEcr == \E i \in 1..Len(base) : base[i] = "ecr"

\* What the entry of file f yields when it has an identitytoken or an auth.
EntryYields(f) ==
    LET text == files[f].auth.val.b64
        colon == CHOOSE k \in 1..Len(text) :
                     text[k] = ":" /\ \A j \in 1..(k - 1) : text[j] # ":"
    IN IF files[f].identitytoken.some
       THEN aresult.kind = "Ok" /\ aresult.token.type = "Bearer"
               /\ aresult.token.value = files[f].identitytoken.val
       ELSE (files[f].auth.some /\ \E k \in 1..Len(text) : text[k] = ":") =>
               /\ aresult.kind = "Ok" /\ aresult.token.type = "Basic"
               /\ aresult.token.username = SubSeq(text, 1, colon - 1)
               /\ aresult.token.password = SubSeq(text, colon + 1, Len(text))

EmptyEntry(f) ==
    HoldsEntry(f) /\ ~files[f].auth.some /\ ~files[f].identitytoken.some

\* C21: a missing or malformed credential file never fails the discovery: the
\* resolver falls through to the next source (the next file, then the helpers),
\* and Registry::new, which fails only when discover_auth does, still succeeds.
C21_MalformedFileFallsThrough ==
    /\ (Discovered /\ aresult.kind = "Err") => aresult.error # "ConfigDeserialize"
    /\ (Discovered /\ files[Finch].kind \in {"absent", "malformed"}
           /\ files[Docker].kind \in {"no_entry", "entry"})
          => (aprobes # << >> /\ aprobes[Len(aprobes)] = Docker)
    /\ (Discovered /\ ecr.kind # "api_err"
           /\ \A f \in {Finch, Docker} : files[f].kind \in {"absent", "malformed"})
          => /\ aresult.kind = "Ok"
             /\ IsEcr => ahelper # "none"

\* C22: a missing keychain entry, for a config entry that has neither auth nor
\* identitytoken, does not abort the chain: the next config file and then the
\* cloud-provider helpers are still tried.
C22_KeychainMissFallsThrough ==
    (Discovered /\ keychain.kind = "missing" /\ Probed(Finch) /\ Probed(Docker)) =>
        /\ (EmptyEntry(Finch) /\ files[Docker].kind # "absent")
              => (aprobes # << >> /\ aprobes[Len(aprobes)] = Docker)
        /\ (/\ \E f \in {Finch, Docker} : EmptyEntry(f)
            /\ \A f \in {Finch, Docker} : HoldsEntry(f) => EmptyEntry(f)
            /\ IsEcr)
              => ahelper # "none"


\* The URL that is a Location header value itself, with digest d as its query.
LocationUrl(d) == [path |-> <<Location>>, query |-> d]

\* C29: every PATCH of a chunked upload goes to the URL of the Location header
\* that the start-upload response carried, and the final PUT to that same URL
\* with the digest as its query; the path is built from nothing else.
C29_UploadUsesLocation ==
    \A i \in 1..Len(reqs) :
        /\ reqs[i].kind = "upload_part" => reqs[i].url = LocationUrl(NoDigest)
        /\ reqs[i].kind = "finish_blob_upload" =>
               reqs[i].url = LocationUrl(reqs[i].digest)


(* ------------- properties of the uri parsers (SpecUri) ----------------- *)
\* The string that RegistryUri::from_str was given: the whole argument of a
\* registry command, the part before the first "/" of an object uri.
RegistryArg == IF ukind = "registry" THEN uarg ELSE SplitOnceAt(uarg, "/").left

\* from_str has returned and the command has not touched its result yet.
Parsed == upc = "flag" /\ uuri.kind = "Ok"

HasScheme(str) == StartsWith(str, HTTP) \/ StartsWith(str, HTTPS)
IsLocal(str) == Contains(str, "localhost") \/ Contains(str, "127.0.0.1")

\* C23: a RegistryUri parsed from a string without scheme is secure iff the string
\* contains neither localhost nor 127.0.0.1; an http:// prefix gives is_secure =
\* false and an https:// prefix gives true whatever the host, and base is the
\* string without that prefix.
C23_RegistryUriFromStr ==
    Parsed =>
        LET r == uuri.registry
        IN /\ ~HasScheme(RegistryArg) =>
                 /\ r.is_secure <=> ~IsLocal(RegistryArg)
                 /\ r.base = RegistryArg
           /\ StartsWith(RegistryArg, HTTP) =>
                 /\ ~r.is_secure
                 /\ HTTP \o r.base = RegistryArg
           /\ StartsWith(RegistryArg, HTTPS) =>
                 /\ r.is_secure
                 /\ HTTPS \o r.base = RegistryArg

\* A local host given with https:// has been parsed as secure, with the prefix
\* taken off the base.
C23_Witness ==
    /\ Parsed
    /\ StartsWith(RegistryArg, HTTPS)
    /\ IsLocal(RegistryArg)
    /\ uuri.registry.is_secure
    /\ uuri.registry.base = StripPrefix(RegistryArg, HTTPS)

\* C24: a command that takes an object uri contacts the registry over https,
\* except over http when the host contains localhost or 127.0.0.1 or when
\* --insecure is given; a local registry named without --insecure gets http.
C24_SchemeDefault ==
    (/\ ukind = "object"
     /\ upc = "done"
     /\ uuri.kind = "Ok"
     /\ ~HasScheme(uarg)) =>
        uurl.scheme = IF insecure \/ IsLocal(RegistryArg) THEN "http" ELSE "https"

(* -------- properties of the Reference round trip (SpecReference) ------- *)
\* C25 as stated: every Reference value, Tag or Digest, is read back from its
\* string as itself.
C25_ReferenceRoundTrip == rpc = "done" => rback = rval

\* C25, amended: every Digest, and every Tag whose string holds no ':', is read
\* back from its string as itself.
C25_RoundTripWithoutColonTag ==
    (rpc = "done" /\ (rval.kind = "Digest" \/ ~Contains(rval.value, ":"))) =>
        rback = rval

\* A Digest whose value holds a ':' has been read back as itself.
C25_Witness ==
    /\ rpc = "done"
    /\ rval.kind = "Digest"
    /\ Contains(rval.value, ":")
    /\ rback = rval


(* ------- properties of the MediaType round trip (SpecMediaType) -------- *)
\* The wire strings that the specification lists: the six exact ones, the OCI
\* layer type with +gzip and +zstd, the Docker rootfs type with .gz and .zst.
Listed ==
    {ExactString(t) : t \in ExactTypes} \cup
    { <<LAYER, "+", "g", "z", "i", "p">>, <<LAYER, "+", "z", "s", "t", "d">>,
      <<ROOTFS, ".", "g", "z">>, <<ROOTFS, ".", "z", "s", "t">> }

\* C26: every listed wire string is decoded to a value that is encoded back to the
\* same string, and every MediaType value is encoded to a string that is decoded
\* to the same value.
C26_MediaTypeRoundTrip ==
    /\ (mdir = "decode" /\ mstr \in Listed /\ mpc # "first") =>
           /\ mval # UnknownVariant
           /\ mpc = "done" => mstr2 = mstr
    /\ (mdir = "encode" /\ mpc = "done") => mval2 = mval


(* ---------- properties of the documents of a copy (SpecDocs) ----------- *)
\* C27: every manifest body PUT to the target is byte for byte the body fetched
\* from the source for that entry, so that its sha256 is the digest it is PUT
\* under; the index body PUT is the index body fetched, and has the digest of its
\* reference when that is a digest.
C27_CopyPreservesDigests ==
    \A i \in 1..Len(dputs) :
        LET put == dputs[i]
        IN /\ put.kind = "manifest" =>
                 /\ put.body = smanifests[put.entry]
                 /\ BodyDigest(put.body) = put.reference.digest
           /\ put.kind = "index" =>
                 /\ put.body = sindex
                 /\ put.reference.kind = "Digest" =>
                       BodyDigest(put.body) = put.reference.digest

\* The manifest of entry i has been PUT with success and its blobs are at the
\* target.
ImagePresent(i) ==
    /\ i \in dpresent
    /\ \E k \in 1..Len(dputs) :
          dputs[k].kind = "manifest" /\ dputs[k].entry = i /\ dputs[k].ok

\* C28: the index is PUT when every image of the index is present at the target,
\* at the target repository, under the reference of the source uri.
C28_IndexPutAtSourceReference ==
    \A i \in 1..Len(dputs) :
        dputs[i].kind = "index" =>
            /\ \A e \in 1..Len(dindex.entries) : ImagePresent(e)
            /\ dputs[i].repository = TargetRepository
            /\ dputs[i].reference = srcref


(* --------------- properties of find_index (SpecFindIndex) -------------- *)
\* An index blob has been entered for the second time.
Revisited == \E i, j \in 1..Len(nchain) : i < j /\ nchain[i] = nchain[j]

\* C30: index resolution detects revisits and so ends for every archive: when an
\* index blob names itself or nested indices form a cycle, the blob that comes
\* up again ends the search with a result or an error; the search never goes on
\* into an index it has entered before.
C30_RevisitsDetected == Revisited => nresult # Searching


(* -------- properties of the blob transfers (SpecXfer), continued ------- *)
\* C31: a blob whose streamed bytes do not hash to the digest of its descriptor is
\* never treated as transferred: its transfer does not end in success, and no
\* manifest of an image with such a blob is PUT by copy or by the archive push.
C31_DigestVerified ==
    op \in {"copy", "push"} =>
        /\ \A t \in Transfers : (t.sent \notin {"none", t.d}) => t.pc # "ok"
        /\ \A i \in 1..Len(mput) :
              mput[i].img = img =>
                 \A t \in Transfers : t.sent \in {"none", t.d}


(* ------------ properties of the uri parsers (SpecUri), continued -------- *)
\* What the grammar reads after the repository, with the Reference it stands for.
GrammarRefs ==
    { [text |-> <<":", "v1">>, ref |-> Tag(<<"v1">>)],
      [text |-> <<"@", "sha256", ":", "abc">>, ref |-> Digest("Sha256", <<"abc">>)] }

\* C32: for every input [scheme://]host[:port]/repo[/repo...](:tag | @algo:hex)
\* Uri::new yields the base host[:port], the whole repository path and the
\* Reference of the tag or digest, and the Uri is displayed as base/repo:tag or
\* base/repo@algo:hex.
C32_UriNewGrammar ==
    (ukind = "object" /\ upc = "flag") =>
        \A sc \in Schemes, h \in Hosts, pt \in Ports, rp \in Repos, g \in GrammarRefs :
            uarg = sc \o h \o pt \o <<"/">> \o rp \o g.text =>
                /\ uuri.kind = "Ok"
                /\ uuri.registry.base = h \o pt
                /\ uuri.repository = rp
                /\ uuri.reference = g.ref
                /\ UriToString(uuri) = h \o pt \o <<"/">> \o rp \o g.text


(* ------- properties of the layer decoders (SpecMediaType) -------------- *)
\* The format of the decoder that belongs to a Compression.
DecoderOf(c) ==
    CASE c = "Gzip" -> "gzip"
      [] c = "Bzip2" -> "bzip2"
      [] c = "Lz4" -> "lz4"
      [] c = "Xz" -> "xz"
      [] c = "Zstd" -> "zstd"
      [] c = "None" -> "none"

\* C38: the decoder put on a layer's stream is the one of media_type.compression():
\* gzip for Gzip and DockerImageRootfs(None), bzip2 for Bzip2, lz4 for Lz4, xz for
\* Xz, zstd for Zstd, none for Layer(None) and the types that are not layers.
C38_DecoderOfCompression ==
    (mdir = "open" /\ mpc = "done") => mdec = DecoderOf(MediaTypeCompression(mval))


(* ------- properties of Layer::copy into a Writer (SpecCopyInto) -------- *)
\* The requests of a kind, by their place in the writer's request log.
OfKind(k) == {i \in 1..Len(reqs) : reqs[i].kind = k}

\* C35: a copy of n >= 1 bytes into a fresh Writer of size n that returned Ok has
\* issued exactly one request carrying the digest: a single monolithic POST when
\* n <= 5 MiB, otherwise one start-upload POST, ceil(n/c) - 1 PATCHes and one PUT
\* that is the last request and was built by the write of the last chunk.
C35_CopyRequestSequence ==
    (crc = "ok" /\ csize >= 1) =>
        LET c == IF csize \div 40 < 5 * MiB THEN 5 * MiB
                 ELSE IF csize \div 40 > 128 * MiB THEN 128 * MiB
                 ELSE csize \div 40
            k == (csize + c - 1) \div c
        IN /\ Cardinality({i \in 1..Len(reqs) : reqs[i].digest # NoDigest}) = 1
           /\ csize <= 5 * MiB =>
                 (Len(reqs) = 1 /\ reqs[1].kind = "post_blob")
           /\ csize > 5 * MiB =>
                 /\ Cardinality(OfKind("start_upload")) = 1
                 /\ Cardinality(OfKind("upload_part")) = k - 1
                 /\ Cardinality(OfKind("finish_blob_upload")) = 1
                 /\ OfKind("post_blob") = {}
                 /\ reqs[Len(reqs)].kind = "finish_blob_upload"
                 /\ reqs[Len(reqs)].write = k

\* C36: a copy of a blob of size 0 makes no write, the Writer has issued no
\* request, and Writer::layer() gives size 0 and the digest of the empty input.
C36_EmptyBlobNoRequest ==
    (csize = 0 /\ size = 0 /\ crc # "running") =>
        /\ crc = "ok"
        /\ cwrites = << >>
        /\ results = << >>
        /\ reqs = << >>
        /\ WriterLayer = [size |-> 0, digest |-> Sha256Digest(<< >>)]

\* The copy of an empty blob has returned Ok.
C36_Witness == csize = 0 /\ size = 0 /\ crc = "ok" /\ reqs = << >>


(* -------- properties of the blob transfers (SpecXfer), concluded ------- *)
\* C37: within one copy of an image each blob digest is uploaded to the target at
\* most once, whatever the interleaving of the layer tasks, also when several
\* layers of the image have the same digest.
C37_UploadedAtMostOnce ==
    op = "copy" =>
        \A i, j \in 1..Len(tasks) :
            (/\ i # j
             /\ tasks[i].d = tasks[j].d
             /\ tasks[i].upl = "ok" /\ tasks[i].sent = tasks[i].d)
                => ~(tasks[j].upl = "ok" /\ tasks[j].sent = tasks[j].d)


(* ------------- properties of Index::to_oci (SpecToOci) ----------------- *)
\* The entries of the index whose platform is the one asked for, by their place,
\* and the j-th of them.
Wanted == {i \in 1..Len(eindex) : eindex[i].platform = eplat}
NthWanted(j) == CHOOSE i \in Wanted : Cardinality({m \in Wanted : m <= i}) = j

\* The digests of the config and of the layers of an entry's image.
BlobsOf(e) ==
    {e.image.config.digest} \cup
    {e.image.layers[i].digest : i \in 1..Len(e.image.layers)}

\* C33: to_oci with platform Some(x) writes an index.json with exactly the entries
\* whose platform is x, in their original order, and requests only the manifests,
\* configs and layers of those entries; when no entry matches it fails with
\* IndexNoPlatform, has sent no request and has written nothing to the output.
C33_OciPlatformFilter ==
    (eop = "to_oci" /\ eplat # NoPlatform) =>
        /\ ejson.kind = "index" =>
              /\ Len(ejson.manifests) = Cardinality(Wanted)
              /\ \A j \in 1..Len(ejson.manifests) :
                    ejson.manifests[j] = eindex[NthWanted(j)]
        /\ (Wanted # {} /\ epc # "start") => ejson.kind = "index"
        /\ eout # {} => <<"index.json">> \in eout
        /\ \A r \in 1..Len(egets) :
              \E i \in Wanted :
                 IF egets[r].kind = "manifest"
                 THEN egets[r].digest = eindex[i].digest
                 ELSE egets[r].digest \in BlobsOf(eindex[i])
        /\ Wanted = {} =>
              /\ egets = << >>
              /\ eout = {}
              /\ ejson.kind = "none"
              /\ epc = "done" => erc = "IndexNoPlatform"

\* An index of a linux/amd64, a linux/arm64 and a second linux/amd64 image was
\* exported for linux/amd64: two entries were kept and the archive written.
C33_Witness ==
    /\ eop = "to_oci" /\ erc = "ok" /\ eout # {}
    /\ Len(eindex) = 3
    /\ Wanted = {1, 3}
    /\ eindex[1] # eindex[3]
    /\ ejson.manifests = <<eindex[1], eindex[3]>>
    /\ Len(egets) = 7

(* ---------- properties of Image::to_tarball (SpecToTarball) ------------ *)
\* A download of the config or of a layer has failed.
DownloadFailed ==
    \/ erc \in {"LayerOpen", "LayerRead", "Layer"}
    \/ \E i \in 1..Len(etasks) : etasks[i].pc = "err"

\* C34: manifest.json is written only after every layer download has ended in
\* success; its Layers are the files of the layers in the image's layer order,
\* whatever the order the downloads ended in; every name in Config and Layers is a
\* file of the tarball; after a failed download nothing is written to the output.
C34_TarballManifest ==
    eop = "to_tarball" =>
        /\ ejson.kind = "tarball" =>
              /\ Len(etasks) = Len(eimage.layers)
              /\ Len(ejson.layers) = Len(eimage.layers)
              /\ \A i \in 1..Len(etasks) :
                    /\ etasks[i].pc = "ok"
                    /\ etasks[i].layer = eimage.layers[i]
                    /\ ejson.layers[i] = etasks[i].file
                    /\ ejson.layers[i] \in etmp
              /\ ejson.config \in etmp
        /\ eout # {} =>
              /\ ejson.kind = "tarball"
              /\ <<"manifest.json">> \in eout
              /\ ejson.config \in eout
              /\ \A i \in 1..Len(ejson.layers) : ejson.layers[i] \in eout
        /\ DownloadFailed => (eout = {} /\ ejson.kind = "none")

\* A tarball of two different layers was written although the second layer's
\* download ended before the first's.
C34_Witness ==
    /\ eop = "to_tarball" /\ erc = "ok" /\ eout # {}
    /\ Len(etasks) = 2
    /\ edone = <<2, 1>>
    /\ etasks[1].file # etasks[2].file
    /\ ejson.layers = <<etasks[1].file, etasks[2].file>>

====
